---------------------------- MODULE Spec2Model ----------------------------
(***************************************************************************)
(* A model of context-vacuum: the SQLite source store, the CLI commands    *)
(* that write it (add, remove, toggle-on, toggle-off, import-bookmarks),   *)
(* the TUI's add, and the generator's list / refresh / render / record     *)
(* pipeline.                                                               *)
(*                                                                         *)
(* Text (names, locators, contents, rendered output) is a sequence of      *)
(* one-character strings, so that prefixes and substrings are computed     *)
(* the way the Go code computes them.                                      *)
(***************************************************************************)
EXTENDS Integers, Sequences, FiniteSets, TLC

VARIABLES
    sources,     \* the sources table: id -> row
    nextId,      \* the AUTOINCREMENT counter of sources.id
    now,         \* strftime('%s','now'): the wall clock, in seconds
    world,       \* what is behind each locator: locator -> (content, err)
    history,     \* the history table, oldest first
    outFile,     \* the file at the --output path
    genPc,       \* "idle", or "done": a generate has run and not yet returned
    genOpts,     \* that generate's destination and format
    genList,     \* sources, as its ListEnabledSources returned them
    genUpdated,  \* updatedSources, as its checkAndRefreshCache returned them
    genFetched,  \* what the parser returned for each source of genList
    genLog,      \* what the logger was told about each source of genList
    genResult,   \* the error it returned, or "ok"
    genOut,      \* the content it rendered
    presetSources, \* the preset_sources table: a set of (preset_id, source_id)
    adding,      \* the adds under way: process -> where it is and what it read
    tui          \* the model of the TUI: what bubbletea hands to Update

genVars == <<genPc, genOpts, genList, genUpdated, genFetched, genLog,
             genResult, genOut>>
vars == <<sources, nextId, now, world, history, outFile, genPc, genOpts,
          genList, genUpdated, genFetched, genLog, genResult, genOut,
          presetSources, adding, tui>>

---------------------------------------------------------------------------
(* Bounds of the model. *)

\* ids 1..MaxId can be handed out: creations stop when the counter passes it
MaxId == 2
\* the clock runs from 0 to MaxClock
MaxClock == 1
\* the history table holds at most MaxHistory rows: a generate that would add
\* one more does not run
MaxHistory == 1
\* a bookmark file holds at most MaxBookmarks bookmarks
MaxBookmarks == 2
\* the parser reads at most MaxFileSize characters (--max-file-size)
MaxFileSize == 1

---------------------------------------------------------------------------
(* Text. *)

NameA == <<"a">>
NameB == <<"b">>
Names == {NameA, NameB}

FilePath == <<"/", "f">>
UrlPath == <<"h", "t", "t", "p", ":", "/", "/", "u">>
Locators == {FilePath, UrlPath}

Contents == {<<"a">>, <<"x">>}
\* a content one character longer than the parser reads
BigContent == [i \in 1..(MaxFileSize + 1) |-> "x"]

HttpPrefix == <<"h", "t", "t", "p", ":", "/", "/">>
HttpsPrefix == <<"h", "t", "t", "p", "s", ":", "/", "/">>

\* strings.HasPrefix
HasPrefix(s, prefix) ==
    /\ Len(s) >= Len(prefix)
    /\ SubSeq(s, 1, Len(prefix)) = prefix

IsURL(s) == HasPrefix(s, HttpPrefix) \/ HasPrefix(s, HttpsPrefix)

\* the positions at which sub occurs in s
Occurrences(sub, s) ==
    {i \in 1..(Len(s) - Len(sub) + 1) : SubSeq(s, i, i + Len(sub) - 1) = sub}

\* strings.Contains
Contains(s, sub) == Occurrences(sub, s) # {}

---------------------------------------------------------------------------
(* The parser: a fetch returns (content, err). *)

FetchErr == [ok |-> FALSE, content |-> <<>>]
Fetched(c) == [ok |-> TRUE, content |-> c]
FetchResults == {FetchErr} \cup {Fetched(c) : c \in Contents}

\* a parser that reads a file whatever its size
ParseFileNoLimit(path) == IF IsURL(path) THEN FetchErr ELSE world[path]

\* os.Stat, the check of the size, os.ReadFile; a URL string names no file
ParseFile(path) ==
    IF IsURL(path) THEN FetchErr
    ELSE IF ~world[path].ok THEN FetchErr
    ELSE IF Len(world[path].content) > MaxFileSize THEN FetchErr
    ELSE world[path]

\* http.Get of a URL, the check of the size of the body; a string with no
\* scheme is an unsupported protocol
ParseURL(url) ==
    IF ~IsURL(url) THEN FetchErr
    ELSE IF ~world[url].ok THEN FetchErr
    ELSE IF Len(world[url].content) > MaxFileSize THEN FetchErr
    ELSE world[url]

\* sha256 of the content, in hex: distinct contents have distinct digests
ComputeHash(content) == <<"sha256", content>>

---------------------------------------------------------------------------
(* The sources table and its queries. *)

SourceTypes == {"file", "url", "bookmark"}

Rows(S) == {S[i] : i \in DOMAIN S}

\* SELECT * FROM sources WHERE name = ? LIMIT 1 (name is UNIQUE)
HasName(S, name) == \E i \in DOMAIN S : S[i].name = name
GetSourceByName(S, name) == CHOOSE r \in Rows(S) : r.name = name

\* SELECT * FROM sources WHERE hash = ? LIMIT 1: only err == nil is read
HasHash(S, hash) == \E i \in DOMAIN S : S[i].hash = hash

\* INSERT INTO sources ...: fails on UNIQUE(name) and on the CHECK of source_type
CanCreateSource(S, name, source_type) ==
    /\ ~HasName(S, name)
    /\ source_type \in SourceTypes

CreateSource(S, id, name, source_type, path, content, hash, enabled, t) ==
    [i \in DOMAIN S \cup {id} |->
        IF i = id
        THEN [id |-> id, name |-> name, source_type |-> source_type,
              path |-> path, content |-> content, hash |-> hash,
              enabled |-> enabled, created_at |-> t, updated_at |-> t]
        ELSE S[i]]

\* UPDATE sources SET content, hash, updated_at WHERE id = ?: no row, no error
UpdateSourceContentKeepsHash(S, id, content, hash, t) ==
    IF id \in DOMAIN S
    THEN [S EXCEPT ![id].content = content, ![id].updated_at = t]
    ELSE S

\* an update that leaves updated_at as it was
UpdateSourceContentKeepsStamp(S, id, content, hash, t) ==
    IF id \in DOMAIN S
    THEN [S EXCEPT ![id].content = content, ![id].hash = hash]
    ELSE S

UpdateSourceContent(S, id, content, hash, t) ==
    IF id \in DOMAIN S
    THEN [S EXCEPT ![id].content = content, ![id].hash = hash,
                   ![id].updated_at = t]
    ELSE S

\* an update that flips enabled, whatever value it is given
UpdateSourceEnabledFlips(S, name, enabled, t) ==
    [i \in DOMAIN S |->
        IF S[i].name = name
        THEN [S[i] EXCEPT !.enabled = 1 - S[i].enabled, !.updated_at = t]
        ELSE S[i]]

\* an update that leaves alone a row that has the value already
UpdateSourceEnabledIfChanged(S, name, enabled, t) ==
    [i \in DOMAIN S |->
        IF S[i].name = name /\ S[i].enabled # enabled
        THEN [S[i] EXCEPT !.enabled = enabled, !.updated_at = t]
        ELSE S[i]]

\* UPDATE sources SET enabled, updated_at WHERE name = ?: no row, no error
UpdateSourceEnabled(S, name, enabled, t) ==
    [i \in DOMAIN S |->
        IF S[i].name = name
        THEN [S[i] EXCEPT !.enabled = enabled, !.updated_at = t]
        ELSE S[i]]

\* DELETE FROM sources WHERE name = ?: no row, no error
DeleteSource(S, name) ==
    [i \in {j \in DOMAIN S : S[j].name # name} |-> S[i]]

\* the orders in which a SELECT may return the rows ids: every order that
\* is non-decreasing in created_at (rows that tie come in any order)
OrderedByCreatedAt(S, ids) ==
    {p \in [1..Cardinality(ids) -> ids] :
        /\ \A i, j \in DOMAIN p : i # j => p[i] # p[j]
        /\ \A i, j \in DOMAIN p : i < j => S[p[i]].created_at <= S[p[j]].created_at}

\* SELECT * FROM sources ORDER BY created_at DESC
ListSources(S) ==
    {[k \in DOMAIN p |-> S[p[Len(p) + 1 - k]]] : p \in OrderedByCreatedAt(S, DOMAIN S)}

\* the same query without WHERE enabled = 1
ListEnabledSourcesAll(S) ==
    {[k \in DOMAIN p |-> S[p[k]]] : p \in OrderedByCreatedAt(S, DOMAIN S)}

\* SELECT * FROM sources WHERE enabled = 1 ORDER BY created_at ASC
ListEnabledSources(S) ==
    LET ids == {i \in DOMAIN S : S[i].enabled = 1}
    IN  {[k \in DOMAIN p |-> S[p[k]]] : p \in OrderedByCreatedAt(S, ids)}


\* the presets that exist (the program has no command that makes or drops one)
PresetIds == {"p1", "p2"}

Membership(preset_id, source_id) == [preset_id |-> preset_id, source_id |-> source_id]

\* INSERT INTO preset_sources (preset_id, source_id) VALUES (?, ?): fails on
\* the PRIMARY KEY and on the FOREIGN KEY to sources(id)
CanAddSourceToPreset(ps, S, preset_id, source_id) ==
    /\ preset_id \in PresetIds
    /\ source_id \in DOMAIN S
    /\ Membership(preset_id, source_id) \notin ps

AddSourceToPreset(ps, preset_id, source_id) ==
    ps \cup {Membership(preset_id, source_id)}

\* DELETE FROM preset_sources WHERE preset_id = ? AND source_id = ?
RemoveSourceFromPreset(ps, preset_id, source_id) ==
    ps \ {Membership(preset_id, source_id)}

\* a database on which foreign keys are not enforced
CascadeOff(ps, S) == ps

\* FOREIGN KEY (source_id) REFERENCES sources(id) ON DELETE CASCADE, with
\* PRAGMA foreign_keys = ON: the memberships left when the table becomes S
Cascade(ps, S) == {m \in ps : m.source_id \in DOMAIN S}

\* the processes that may run an add at the same time
Procs == {"p", "q"}

\* a process that is not in an add
NotAdding ==
    [pc |-> "idle", name |-> <<>>, source |-> <<>>, enabled |-> FALSE,
     fetched |-> FetchErr, found |-> FALSE, id |-> 0, status |-> ""]

---------------------------------------------------------------------------
(* The bookmark file handed to import-bookmarks, as ParseBookmarkHTML reads it. *)

Bookmark(title, url) == [title |-> title, url |-> url]
Bookmarks == {Bookmark(t, UrlPath) : t \in Names}
BookmarkLists == UNION {[1..n -> Bookmarks] : n \in 0..MaxBookmarks}
BookmarkFiles ==
    {[ok |-> FALSE, bookmarks |-> <<>>]} \cup
    {[ok |-> TRUE, bookmarks |-> bs] : bs \in BookmarkLists}

---------------------------------------------------------------------------
(* The commands that write the store. Each is what the command does to    *)
(* the table, with what it reports: status is the message it prints, or   *)
(* the error it returns. dbOk = FALSE: the command's write statement      *)
(* fails (database locked, disk full).                                    *)

Outcome(status, S, id) == [status |-> status, sources |-> S, nextId |-> id]

\* an add that, on a name the table holds, also writes the kind of the
\* locator it was given
addSourceRetypes(name, source, enabled, dbOk) ==
    LET sourceType == IF IsURL(source) THEN "url" ELSE "file"
        r == IF IsURL(source) THEN ParseURL(source) ELSE ParseFile(source)
        hash == ComputeHash(r.content)
        enabledInt == IF enabled THEN 1 ELSE 0
    IN  IF ~r.ok
        THEN Outcome(IF IsURL(source) THEN "failed to parse URL"
                                      ELSE "failed to parse file", sources, nextId)
        ELSE IF HasName(sources, name)
        THEN IF dbOk
             THEN LET id == GetSourceByName(sources, name).id
                      S == UpdateSourceContent(sources, id, r.content, hash, now)
                  IN  Outcome("Updated source",
                              [S EXCEPT ![id].source_type = sourceType,
                                        ![id].path = source],
                              nextId)
             ELSE Outcome("failed to update source", sources, nextId)
        ELSE IF dbOk /\ CanCreateSource(sources, name, sourceType)
             THEN Outcome("Added source",
                     CreateSource(sources, nextId, name, sourceType, source,
                                  r.content, hash, enabledInt, now),
                     nextId + 1)
             ELSE Outcome("failed to create source", sources, nextId)

\* an add that, when the fetch fails, stores the empty content it got
addSourceStoresFailedFetch(name, source, enabled, dbOk) ==
    LET sourceType == IF IsURL(source) THEN "url" ELSE "file"
        r == IF IsURL(source) THEN ParseURL(source) ELSE ParseFile(source)
        hash == ComputeHash(r.content)
        enabledInt == IF enabled THEN 1 ELSE 0
    IN  IF HasName(sources, name)
        THEN IF dbOk
             THEN Outcome("Updated source",
                     UpdateSourceContent(sources, GetSourceByName(sources, name).id,
                                         r.content, hash, now),
                     nextId)
             ELSE Outcome("failed to update source", sources, nextId)
        ELSE IF dbOk /\ CanCreateSource(sources, name, sourceType)
             THEN Outcome("Added source",
                     CreateSource(sources, nextId, name, sourceType, source,
                                  r.content, hash, enabledInt, now),
                     nextId + 1)
             ELSE Outcome("failed to create source", sources, nextId)

\* an add that never looks the name up
addSourceAlwaysCreates(name, source, enabled, dbOk) ==
    LET sourceType == IF IsURL(source) THEN "url" ELSE "file"
        r == IF IsURL(source) THEN ParseURL(source) ELSE ParseFile(source)
        hash == ComputeHash(r.content)
        enabledInt == IF enabled THEN 1 ELSE 0
    IN  IF ~r.ok
        THEN Outcome(IF IsURL(source) THEN "failed to parse URL"
                                      ELSE "failed to parse file", sources, nextId)
        ELSE IF dbOk /\ CanCreateSource(sources, name, sourceType)
             THEN Outcome("Added source",
                     CreateSource(sources, nextId, name, sourceType, source,
                                  r.content, hash, enabledInt, now),
                     nextId + 1)
             ELSE Outcome("failed to create source", sources, nextId)

\* an add that, for a name the table holds, stores the locator and the flag
\* it is given too
addSourceRelocates(name, source, enabled, dbOk) ==
    LET sourceType == IF IsURL(source) THEN "url" ELSE "file"
        r == IF IsURL(source) THEN ParseURL(source) ELSE ParseFile(source)
        hash == ComputeHash(r.content)
        enabledInt == IF enabled THEN 1 ELSE 0
    IN  IF ~r.ok
        THEN Outcome(IF IsURL(source) THEN "failed to parse URL"
                                      ELSE "failed to parse file", sources, nextId)
        ELSE IF HasName(sources, name)
        THEN IF dbOk
             THEN Outcome("Updated source",
                     [UpdateSourceContent(sources, GetSourceByName(sources, name).id,
                                          r.content, hash, now)
                        EXCEPT ![GetSourceByName(sources, name).id].path = source,
                               ![GetSourceByName(sources, name).id].enabled =
                                   enabledInt],
                     nextId)
             ELSE Outcome("failed to update source", sources, nextId)
        ELSE IF dbOk /\ CanCreateSource(sources, name, sourceType)
             THEN Outcome("Added source",
                     CreateSource(sources, nextId, name, sourceType, source,
                                  r.content, hash, enabledInt, now),
                     nextId + 1)
             ELSE Outcome("failed to create source", sources, nextId)

\* context-vacuum add --name <name> [--enabled=...] <source>
addSource(name, source, enabled, dbOk) ==
    LET sourceType == IF IsURL(source) THEN "url" ELSE "file"
        r == IF IsURL(source) THEN ParseURL(source) ELSE ParseFile(source)
        hash == ComputeHash(r.content)
        enabledInt == IF enabled THEN 1 ELSE 0
    IN  IF ~r.ok
        THEN Outcome(IF IsURL(source) THEN "failed to parse URL"
                                      ELSE "failed to parse file", sources, nextId)
        ELSE IF HasName(sources, name)
        THEN IF dbOk
             THEN Outcome("Updated source",
                     UpdateSourceContent(sources, GetSourceByName(sources, name).id,
                                         r.content, hash, now),
                     nextId)
             ELSE Outcome("failed to update source", sources, nextId)
        ELSE IF dbOk /\ CanCreateSource(sources, name, sourceType)
             THEN Outcome("Added source",
                     CreateSource(sources, nextId, name, sourceType, source,
                                  r.content, hash, enabledInt, now),
                     nextId + 1)
             ELSE Outcome("failed to create source", sources, nextId)

\* the TUI's add modal, once name and path are validated: model.addSource
tuiAddSource(name, path, dbOk) ==
    LET sourceType == IF IsURL(path) THEN "url" ELSE "file"
        r == IF IsURL(path) THEN ParseURL(path) ELSE ParseFile(path)
        hash == ComputeHash(r.content)
    IN  IF ~r.ok
        THEN Outcome(IF IsURL(path) THEN "failed to fetch URL"
                                    ELSE "failed to read file", sources, nextId)
        ELSE IF HasName(sources, name)
        THEN IF dbOk
             THEN Outcome("nil",
                     UpdateSourceContent(sources, GetSourceByName(sources, name).id,
                                         r.content, hash, now),
                     nextId)
             ELSE Outcome("update error", sources, nextId)
        ELSE IF dbOk /\ CanCreateSource(sources, name, sourceType)
             THEN Outcome("nil",
                     CreateSource(sources, nextId, name, sourceType, path,
                                  r.content, hash, 1, now),
                     nextId + 1)
             ELSE Outcome("create error", sources, nextId)

\* context-vacuum remove <name>
removeSource(name, dbOk) ==
    IF dbOk
    THEN Outcome("Removed source", DeleteSource(sources, name), nextId)
    ELSE Outcome("failed to delete source", sources, nextId)

\* context-vacuum toggle-on <name>
toggleOn(name, dbOk) ==
    IF dbOk
    THEN Outcome("Enabled source", UpdateSourceEnabled(sources, name, 1, now), nextId)
    ELSE Outcome("failed to enable source", sources, nextId)

\* context-vacuum toggle-off <name>
toggleOff(name, dbOk) ==
    IF dbOk
    THEN Outcome("Disabled source", UpdateSourceEnabled(sources, name, 0, now), nextId)
    ELSE Outcome("failed to disable source", sources, nextId)

\* an import that ends at the first bookmark it cannot fetch
RECURSIVE importLoopStopsOnError(_, _)
importLoopStopsOnError(bookmarks, acc) ==
    IF bookmarks = <<>> THEN acc
    ELSE LET bookmark == Head(bookmarks)
             r == ParseURL(bookmark.url)
             hash == ComputeHash(r.content)
         IN  IF ~r.ok
             THEN acc
             ELSE IF HasHash(acc.sources, hash)
             THEN importLoopStopsOnError(Tail(bookmarks), acc)
             ELSE IF ~CanCreateSource(acc.sources, bookmark.title, "bookmark")
             THEN importLoopStopsOnError(Tail(bookmarks), acc)
             ELSE importLoopStopsOnError(Tail(bookmarks),
                     [sources |-> CreateSource(acc.sources, acc.nextId,
                                     bookmark.title, "bookmark", bookmark.url,
                                     r.content, hash, 0, now),
                      nextId |-> acc.nextId + 1,
                      imported |-> acc.imported + 1])

\* an import that does not look the digest of a page up in the table
RECURSIVE importLoopAnyHash(_, _)
importLoopAnyHash(bookmarks, acc) ==
    IF bookmarks = <<>> THEN acc
    ELSE LET bookmark == Head(bookmarks)
             r == ParseURL(bookmark.url)
             hash == ComputeHash(r.content)
         IN  IF ~r.ok
             THEN importLoopAnyHash(Tail(bookmarks), acc)
             ELSE IF ~CanCreateSource(acc.sources, bookmark.title, "bookmark")
             THEN importLoopAnyHash(Tail(bookmarks), acc)
             ELSE importLoopAnyHash(Tail(bookmarks),
                     [sources |-> CreateSource(acc.sources, acc.nextId,
                                     bookmark.title, "bookmark", bookmark.url,
                                     r.content, hash, 0, now),
                      nextId |-> acc.nextId + 1,
                      imported |-> acc.imported + 1])

\* the loop of importBookmarks over the bookmarks not yet processed;
\* acc: the table, the id counter and imported so far
RECURSIVE importLoop(_, _)
importLoop(bookmarks, acc) ==
    IF bookmarks = <<>> THEN acc
    ELSE LET bookmark == Head(bookmarks)
             r == ParseURL(bookmark.url)
             hash == ComputeHash(r.content)
         IN  IF ~r.ok
             THEN importLoop(Tail(bookmarks), acc)
             ELSE IF HasHash(acc.sources, hash)
             THEN importLoop(Tail(bookmarks), acc)
             ELSE IF ~CanCreateSource(acc.sources, bookmark.title, "bookmark")
             THEN importLoop(Tail(bookmarks), acc)
             ELSE importLoop(Tail(bookmarks),
                     [sources |-> CreateSource(acc.sources, acc.nextId,
                                     bookmark.title, "bookmark", bookmark.url,
                                     r.content, hash, 0, now),
                      nextId |-> acc.nextId + 1,
                      imported |-> acc.imported + 1])

\* context-vacuum import-bookmarks <file>
importBookmarks(file) ==
    IF ~file.ok
    THEN [status |-> "failed to parse bookmarks", sources |-> sources,
          nextId |-> nextId, imported |-> 0]
    ELSE LET acc == importLoop(file.bookmarks,
                        [sources |-> sources, nextId |-> nextId, imported |-> 0])
         IN  [status |-> "Imported", sources |-> acc.sources,
              nextId |-> acc.nextId, imported |-> acc.imported]

---------------------------------------------------------------------------
(* The TUI: the bubbletea model and its Update. A key is the String() of  *)
(* a tea.KeyMsg; a pasted text arrives as one key.                        *)

Keys == {"ctrl+c", "q", "a", "b", " ", "up", "down", "enter", "d", "r", "esc",
         "tab", "y", "Y", "n", "/f", "http://u"}

\* the runes of a key, for a text input
KeyRunes(key) ==
    CASE key = "a" -> NameA
      [] key = "b" -> NameB
      [] key = " " -> <<" ">>
      [] key = "/f" -> FilePath
      [] key = "http://u" -> UrlPath
      [] OTHER -> <<>>

\* the texts the inputs of the add modal come to hold: an input takes the
\* runes of a key when it is empty and the text is one of these
NameTexts == Names \cup {<<" ">>}
PathTexts == Locators \cup {<<" ">>}

\* strings.TrimSpace
RECURSIVE TrimLeft(_)
TrimLeft(s) == IF s # <<>> /\ Head(s) = " " THEN TrimLeft(Tail(s)) ELSE s
RECURSIVE TrimRight(_)
TrimRight(s) ==
    IF s # <<>> /\ s[Len(s)] = " " THEN TrimRight(SubSeq(s, 1, Len(s) - 1)) ELSE s
TrimSpace(s) == TrimRight(TrimLeft(s))

\* initialModel, given what ListSources returned
initialModel(list) ==
    [sources |-> list, cursor |-> 0, message |-> "", addMode |-> FALSE,
     nameInput |-> <<>>, pathInput |-> <<>>, focusIndex |-> 0,
     deleteConfirm |-> FALSE, deleteTarget |-> <<>>, quit |-> FALSE]

\* what an Update returns and leaves: the model and the table
Updated(m, S, id) == [m |-> m, sources |-> S, nextId |-> id]

\* m.sources[m.cursor] with the cursor past the end: the program panics
Panicked(m) == [m EXCEPT !.quit = TRUE, !.message = "panic: index out of range"]

\* a reload that shows the list as it was
ReloadedKeepsList(m, S, id, reloadOk, ok) ==
    IF reloadOk
    THEN {Updated([m EXCEPT !.message = ok], S, id)}
    ELSE {Updated([m EXCEPT !.message = "Error reloading"], S, id)}

\* the reload of m.sources after a write that left the table S: the
\* message is ok when ListSources answers
Reloaded(m, S, id, reloadOk, ok) ==
    IF reloadOk
    THEN {Updated([m EXCEPT !.sources = list, !.message = ok], S, id) :
              list \in ListSources(S)}
    ELSE {Updated([m EXCEPT !.message = "Error reloading"], S, id)}

\* textinput.Update of the focused input
inputUpdate(m, key) ==
    IF m.focusIndex = 0
    THEN IF m.nameInput = <<>> /\ KeyRunes(key) \in NameTexts
         THEN [m EXCEPT !.nameInput = KeyRunes(key)] ELSE m
    ELSE IF m.pathInput = <<>> /\ KeyRunes(key) \in PathTexts
         THEN [m EXCEPT !.pathInput = KeyRunes(key)] ELSE m

\* an add modal that closes whatever the add returned
updateAddModeClosesOnError(m, key, dbOk, reloadOk) ==
    IF key = "ctrl+c" THEN {Updated([m EXCEPT !.quit = TRUE], sources, nextId)}
    ELSE IF key = "esc"
    THEN {Updated([m EXCEPT !.addMode = FALSE, !.message = "Add cancelled"],
                  sources, nextId)}
    ELSE IF key = "tab"
    THEN {Updated([m EXCEPT !.focusIndex = (m.focusIndex + 1) % 2], sources, nextId)}
    ELSE IF key = "enter"
    THEN LET name == TrimSpace(m.nameInput)
             path == TrimSpace(m.pathInput)
         IN  IF name = <<>>
             THEN {Updated([m EXCEPT !.message = "Error: Name cannot be empty"],
                           sources, nextId)}
             ELSE IF path = <<>>
             THEN {Updated([m EXCEPT !.message = "Error: Path cannot be empty"],
                           sources, nextId)}
             ELSE LET o == tuiAddSource(name, path, dbOk)
                  IN  IF o.status # "nil"
                      THEN {Updated([m EXCEPT !.message = "Error: add failed",
                                              !.addMode = FALSE],
                                    o.sources, o.nextId)}
                      ELSE {Updated([u.m EXCEPT !.addMode = FALSE], u.sources, u.nextId) :
                                u \in Reloaded(m, o.sources, o.nextId, reloadOk,
                                               "Added source")}
    ELSE {Updated(inputUpdate(m, key), sources, nextId)}

\* model.updateAddMode
updateAddMode(m, key, dbOk, reloadOk) ==
    IF key = "ctrl+c" THEN {Updated([m EXCEPT !.quit = TRUE], sources, nextId)}
    ELSE IF key = "esc"
    THEN {Updated([m EXCEPT !.addMode = FALSE, !.message = "Add cancelled"],
                  sources, nextId)}
    ELSE IF key = "tab"
    THEN {Updated([m EXCEPT !.focusIndex = (m.focusIndex + 1) % 2], sources, nextId)}
    ELSE IF key = "enter"
    THEN LET name == TrimSpace(m.nameInput)
             path == TrimSpace(m.pathInput)
         IN  IF name = <<>>
             THEN {Updated([m EXCEPT !.message = "Error: Name cannot be empty"],
                           sources, nextId)}
             ELSE IF path = <<>>
             THEN {Updated([m EXCEPT !.message = "Error: Path cannot be empty"],
                           sources, nextId)}
             ELSE LET o == tuiAddSource(name, path, dbOk)
                  IN  IF o.status # "nil"
                      THEN {Updated([m EXCEPT !.message = "Error: add failed"],
                                    o.sources, o.nextId)}
                      ELSE {Updated([u.m EXCEPT !.addMode = FALSE], u.sources, u.nextId) :
                                u \in Reloaded(m, o.sources, o.nextId, reloadOk,
                                               "Added source")}
    ELSE {Updated(inputUpdate(m, key), sources, nextId)}

\* a delete confirmation that deletes the source at the other end of the list
updateDeleteConfirmOtherRow(m, key, dbOk, reloadOk) ==
    IF key = "ctrl+c" THEN {Updated([m EXCEPT !.quit = TRUE], sources, nextId)}
    ELSE IF key \in {"y", "Y"}
    THEN LET closed == [m EXCEPT !.deleteConfirm = FALSE, !.deleteTarget = <<>>]
             target == m.sources[Len(m.sources) - m.cursor].name
         IN  IF ~dbOk
             THEN {Updated([closed EXCEPT !.message = "Error deleting"], sources, nextId)}
             ELSE {Updated([u.m EXCEPT !.cursor =
                               IF m.cursor >= Len(u.m.sources) /\ m.cursor > 0
                                  /\ u.m.message = "Deleted source"
                               THEN Len(u.m.sources) - 1 ELSE m.cursor],
                           u.sources, u.nextId) :
                       u \in Reloaded(closed, DeleteSource(sources, target),
                                      nextId, reloadOk, "Deleted source")}
    ELSE IF key \in {"n", "esc"}
    THEN {Updated([m EXCEPT !.deleteConfirm = FALSE, !.deleteTarget = <<>>,
                            !.message = "Delete cancelled"], sources, nextId)}
    ELSE {Updated(m, sources, nextId)}

\* model.updateDeleteConfirm
updateDeleteConfirm(m, key, dbOk, reloadOk) ==
    IF key = "ctrl+c" THEN {Updated([m EXCEPT !.quit = TRUE], sources, nextId)}
    ELSE IF key \in {"y", "Y"}
    THEN LET closed == [m EXCEPT !.deleteConfirm = FALSE, !.deleteTarget = <<>>]
         IN  IF ~dbOk
             THEN {Updated([closed EXCEPT !.message = "Error deleting"], sources, nextId)}
             ELSE {Updated([u.m EXCEPT !.cursor =
                               IF m.cursor >= Len(u.m.sources) /\ m.cursor > 0
                                  /\ u.m.message = "Deleted source"
                               THEN Len(u.m.sources) - 1 ELSE m.cursor],
                           u.sources, u.nextId) :
                       u \in Reloaded(closed, DeleteSource(sources, m.deleteTarget),
                                      nextId, reloadOk, "Deleted source")}
    ELSE IF key \in {"n", "esc"}
    THEN {Updated([m EXCEPT !.deleteConfirm = FALSE, !.deleteTarget = <<>>,
                            !.message = "Delete cancelled"], sources, nextId)}
    ELSE {Updated(m, sources, nextId)}

\* a list view whose toggle takes the first source of the list
updateListTogglesFirst(m, key, dbOk, reloadOk) ==
    IF key \in {"ctrl+c", "q"}
    THEN {Updated([m EXCEPT !.quit = TRUE], sources, nextId)}
    ELSE IF key = "a"
    THEN {Updated([m EXCEPT !.addMode = TRUE, !.nameInput = <<>>, !.pathInput = <<>>,
                            !.focusIndex = 0, !.message = ""], sources, nextId)}
    ELSE IF key = "up"
    THEN {Updated([m EXCEPT !.cursor = IF m.cursor > 0 THEN m.cursor - 1 ELSE m.cursor],
                  sources, nextId)}
    ELSE IF key = "down"
    THEN {Updated([m EXCEPT !.cursor = IF m.cursor < Len(m.sources) - 1
                                       THEN m.cursor + 1 ELSE m.cursor],
                  sources, nextId)}
    ELSE IF key \in {" ", "enter"}
    THEN IF Len(m.sources) = 0 THEN {Updated(m, sources, nextId)}
         ELSE IF m.cursor >= Len(m.sources) THEN {Updated(Panicked(m), sources, nextId)}
         ELSE LET source == m.sources[1]
                  newEnabled == IF source.enabled = 1 THEN 0 ELSE 1
              IN  IF ~dbOk
                  THEN {Updated([m EXCEPT !.message = "Error"], sources, nextId)}
                  ELSE Reloaded(m, UpdateSourceEnabled(sources, source.name,
                                                       newEnabled, now),
                                nextId, reloadOk, "Toggled")
    ELSE IF key = "d"
    THEN IF Len(m.sources) = 0 THEN {Updated(m, sources, nextId)}
         ELSE IF m.cursor >= Len(m.sources) THEN {Updated(Panicked(m), sources, nextId)}
         ELSE {Updated([m EXCEPT !.deleteConfirm = TRUE,
                                 !.deleteTarget = m.sources[m.cursor + 1].name,
                                 !.message = ""], sources, nextId)}
    ELSE IF key = "r"
    THEN IF reloadOk
         THEN {Updated([m EXCEPT !.sources = list, !.message = "Sources reloaded"],
                       sources, nextId) : list \in ListSources(sources)}
         ELSE {Updated([m EXCEPT !.message = "Error reloading"], sources, nextId)}
    ELSE {Updated(m, sources, nextId)}

\* model.Update, with no modal open
updateList(m, key, dbOk, reloadOk) ==
    IF key \in {"ctrl+c", "q"}
    THEN {Updated([m EXCEPT !.quit = TRUE], sources, nextId)}
    ELSE IF key = "a"
    THEN {Updated([m EXCEPT !.addMode = TRUE, !.nameInput = <<>>, !.pathInput = <<>>,
                            !.focusIndex = 0, !.message = ""], sources, nextId)}
    ELSE IF key = "up"
    THEN {Updated([m EXCEPT !.cursor = IF m.cursor > 0 THEN m.cursor - 1 ELSE m.cursor],
                  sources, nextId)}
    ELSE IF key = "down"
    THEN {Updated([m EXCEPT !.cursor = IF m.cursor < Len(m.sources) - 1
                                       THEN m.cursor + 1 ELSE m.cursor],
                  sources, nextId)}
    ELSE IF key \in {" ", "enter"}
    THEN IF Len(m.sources) = 0 THEN {Updated(m, sources, nextId)}
         ELSE IF m.cursor >= Len(m.sources) THEN {Updated(Panicked(m), sources, nextId)}
         ELSE LET source == m.sources[m.cursor + 1]
                  newEnabled == IF source.enabled = 1 THEN 0 ELSE 1
              IN  IF ~dbOk
                  THEN {Updated([m EXCEPT !.message = "Error"], sources, nextId)}
                  ELSE Reloaded(m, UpdateSourceEnabled(sources, source.name,
                                                       newEnabled, now),
                                nextId, reloadOk, "Toggled")
    ELSE IF key = "d"
    THEN IF Len(m.sources) = 0 THEN {Updated(m, sources, nextId)}
         ELSE IF m.cursor >= Len(m.sources) THEN {Updated(Panicked(m), sources, nextId)}
         ELSE {Updated([m EXCEPT !.deleteConfirm = TRUE,
                                 !.deleteTarget = m.sources[m.cursor + 1].name,
                                 !.message = ""], sources, nextId)}
    ELSE IF key = "r"
    THEN IF reloadOk
         THEN {Updated([m EXCEPT !.sources = list, !.message = "Sources reloaded"],
                       sources, nextId) : list \in ListSources(sources)}
         ELSE {Updated([m EXCEPT !.message = "Error reloading"], sources, nextId)}
    ELSE {Updated(m, sources, nextId)}

\* model.Update
Update(m, key, dbOk, reloadOk) ==
    IF m.addMode THEN updateAddMode(m, key, dbOk, reloadOk)
    ELSE IF m.deleteConfirm THEN updateDeleteConfirm(m, key, dbOk, reloadOk)
    ELSE updateList(m, key, dbOk, reloadOk)

---------------------------------------------------------------------------
(* The generator. *)

\* (needsRefresh, freshContent, err) of detectCacheMiss, and what the parser
\* returned to it (FetchErr when it asked the parser nothing)
CacheCheck(needsRefresh, freshContent, err, parsed) ==
    [needsRefresh |-> needsRefresh, freshContent |-> freshContent,
     err |-> err, parsed |-> parsed]

\* a detectCacheMiss for which whatever the parser returns is a cache miss
detectCacheMissAlwaysStale(source) ==
    IF source.source_type = "file"
    THEN LET r == ParseFile(source.path)
         IN  IF ~r.ok THEN CacheCheck(FALSE, <<>>, "failed to parse file", r)
             ELSE CacheCheck(TRUE, r.content, "", r)
    ELSE IF source.source_type \in {"url", "bookmark"}
    THEN LET r == ParseURL(source.path)
         IN  IF ~r.ok THEN CacheCheck(FALSE, <<>>, "failed to parse URL", r)
             ELSE CacheCheck(TRUE, r.content, "", r)
    ELSE CacheCheck(FALSE, <<>>, "unknown source type", FetchErr)

\* a detectCacheMiss for which a source whose locator can be read is never
\* stale
detectCacheMissTrustsStore(source) ==
    IF source.source_type = "file"
    THEN LET r == ParseFile(source.path)
         IN  IF ~r.ok THEN CacheCheck(FALSE, <<>>, "failed to parse file", r)
             ELSE CacheCheck(FALSE, <<>>, "", r)
    ELSE IF source.source_type \in {"url", "bookmark"}
    THEN LET r == ParseURL(source.path)
         IN  IF ~r.ok THEN CacheCheck(FALSE, <<>>, "failed to parse URL", r)
             ELSE CacheCheck(FALSE, <<>>, "", r)
    ELSE CacheCheck(FALSE, <<>>, "unknown source type", FetchErr)

detectCacheMiss(source) ==
    IF source.source_type = "file"
    THEN LET r == ParseFile(source.path)
         IN  IF ~r.ok THEN CacheCheck(FALSE, <<>>, "failed to parse file", r)
             ELSE IF ComputeHash(r.content) # source.hash
             THEN CacheCheck(TRUE, r.content, "", r)
             ELSE CacheCheck(FALSE, <<>>, "", r)
    ELSE IF source.source_type \in {"url", "bookmark"}
    THEN LET r == ParseURL(source.path)
         IN  IF ~r.ok THEN CacheCheck(FALSE, <<>>, "failed to parse URL", r)
             ELSE IF ComputeHash(r.content) # source.hash
             THEN CacheCheck(TRUE, r.content, "", r)
             ELSE CacheCheck(FALSE, <<>>, "", r)
    ELSE CacheCheck(FALSE, <<>>, "unknown source type", FetchErr)

\* the log lines of checkAndRefreshCache
LogCheckFailed == "failed to check cache miss, using cached content"
LogUpdateFailed == "failed to update cache, using cached content"
LogRefreshed == "refreshed cache"
LogNothing == ""

\* the loop's state after one source: entry is appended to updatedSources,
\* S is the table, parsed what the parser answered, line what was logged
Pass(acc, entry, S, parsed, line) ==
    [updatedSources |-> Append(acc.updatedSources, entry),
     sources |-> S,
     fetched |-> Append(acc.fetched, parsed),
     log |-> Append(acc.log, line)]

\* the loop's state after a source that is left out of updatedSources
Skip(acc, parsed, line) ==
    [updatedSources |-> acc.updatedSources,
     sources |-> acc.sources,
     fetched |-> Append(acc.fetched, parsed),
     log |-> Append(acc.log, line)]

\* a refreshSource that, when the check fails, takes what the check returned
refreshSourceFreshOnCheckError(acc, source, writeOk) ==
    LET d == detectCacheMiss(source)
        hash == ComputeHash(d.freshContent)
        fresh == [source EXCEPT !.content = d.freshContent, !.hash = hash]
    IN  IF d.err # ""
        THEN Pass(acc, fresh, acc.sources, d.parsed, LogCheckFailed)
        ELSE IF d.needsRefresh
        THEN IF ~writeOk
             THEN Pass(acc, source, acc.sources, d.parsed, LogUpdateFailed)
             ELSE Pass(acc, fresh,
                       UpdateSourceContent(acc.sources, source.id, d.freshContent,
                                           hash, now),
                       d.parsed, LogRefreshed)
        ELSE Pass(acc, source, acc.sources, d.parsed, LogNothing)

\* a refreshSource that leaves out a source whose check fails
refreshSourceSkipsOnCheckError(acc, source, writeOk) ==
    LET d == detectCacheMiss(source)
        hash == ComputeHash(d.freshContent)
        fresh == [source EXCEPT !.content = d.freshContent, !.hash = hash]
    IN  IF d.err # ""
        THEN Skip(acc, d.parsed, LogCheckFailed)
        ELSE IF d.needsRefresh
        THEN IF ~writeOk
             THEN Pass(acc, source, acc.sources, d.parsed, LogUpdateFailed)
             ELSE Pass(acc, fresh,
                       UpdateSourceContent(acc.sources, source.id, d.freshContent,
                                           hash, now),
                       d.parsed, LogRefreshed)
        ELSE Pass(acc, source, acc.sources, d.parsed, LogNothing)

\* a refreshSource that writes the table and forgets its own copy
refreshSourceStaleEntry(acc, source, writeOk) ==
    LET d == detectCacheMiss(source)
        hash == ComputeHash(d.freshContent)
    IN  IF d.err # ""
        THEN Pass(acc, source, acc.sources, d.parsed, LogCheckFailed)
        ELSE IF d.needsRefresh
        THEN IF ~writeOk
             THEN Pass(acc, source, acc.sources, d.parsed, LogUpdateFailed)
             ELSE Pass(acc, source,
                       UpdateSourceContent(acc.sources, source.id, d.freshContent,
                                           hash, now),
                       d.parsed, LogRefreshed)
        ELSE Pass(acc, source, acc.sources, d.parsed, LogNothing)

\* a refreshSource that keeps the fetched content when the write fails
refreshSourceFreshOnWriteError(acc, source, writeOk) ==
    LET d == detectCacheMiss(source)
        hash == ComputeHash(d.freshContent)
        fresh == [source EXCEPT !.content = d.freshContent, !.hash = hash]
    IN  IF d.err # ""
        THEN Pass(acc, source, acc.sources, d.parsed, LogCheckFailed)
        ELSE IF d.needsRefresh
        THEN IF ~writeOk
             THEN Pass(acc, fresh, acc.sources, d.parsed, LogUpdateFailed)
             ELSE Pass(acc, fresh,
                       UpdateSourceContent(acc.sources, source.id, d.freshContent,
                                           hash, now),
                       d.parsed, LogRefreshed)
        ELSE Pass(acc, source, acc.sources, d.parsed, LogNothing)

\* one pass of the range loop of checkAndRefreshCache; writeOk = FALSE:
\* UpdateSourceContent returns an error
refreshSource(acc, source, writeOk) ==
    LET d == detectCacheMiss(source)
        hash == ComputeHash(d.freshContent)
        fresh == [source EXCEPT !.content = d.freshContent, !.hash = hash]
    IN  IF d.err # ""
        THEN Pass(acc, source, acc.sources, d.parsed, LogCheckFailed)
        ELSE IF d.needsRefresh
        THEN IF ~writeOk
             THEN Pass(acc, source, acc.sources, d.parsed, LogUpdateFailed)
             ELSE Pass(acc, fresh,
                       UpdateSourceContent(acc.sources, source.id, d.freshContent,
                                           hash, now),
                       d.parsed, LogRefreshed)
        ELSE Pass(acc, source, acc.sources, d.parsed, LogNothing)

RECURSIVE refreshFrom(_, _, _, _)
refreshFrom(i, list, writeOk, acc) ==
    IF i > Len(list) THEN acc
    ELSE refreshFrom(i + 1, list, writeOk, refreshSource(acc, list[i], writeOk[i]))

\* a checkAndRefreshCache that returns the sources in the order in which
\* their checks end: those whose fetch failed first
checkAndRefreshCacheByCompletion(list, writeOk) ==
    LET r == refreshFrom(1, list, writeOk,
                 [updatedSources |-> <<>>, sources |-> sources, fetched |-> <<>>,
                  log |-> <<>>])
        n == Len(r.updatedSources)
        early == {i \in 1..n : r.log[i] = LogCheckFailed}
        order == CHOOSE p \in [1..n -> 1..n] :
                     /\ \A i, j \in 1..n : i # j => p[i] # p[j]
                     /\ \A i, j \in 1..n :
                           i < j => \/ p[i] \in early /\ p[j] \notin early
                                    \/ (p[i] \in early <=> p[j] \in early) /\ p[i] < p[j]
    IN  [r EXCEPT !.updatedSources = [k \in 1..n |-> r.updatedSources[order[k]]]]

\* checkAndRefreshCache(ctx, sources): it returns no error
checkAndRefreshCache(list, writeOk) ==
    refreshFrom(1, list, writeOk,
        [updatedSources |-> <<>>, sources |-> sources, fetched |-> <<>>, log |-> <<>>])

---------------------------------------------------------------------------
(* The formats. *)

FormatClaude == <<"c", "l", "a", "u", "d", "e">>
FormatCursor == <<"c", "u", "r", "s", "o", "r">>
FormatDefault == <<"d", "e", "f", "a", "u", "l", "t">>
FormatEmpty == <<>>
FormatOther == <<"m", "d">>

ClaudeHeader ==
    <<"#", " ", "D", "e", "v", "e", "l", "o", "p", "m", "e", "n", "t", " ", "C",
      "o", "n", "t", "e", "x", "t", "\n", "\n", "T", "h", "e", " ", "f", "o", "l",
      "l", "o", "w", "i", "n", "g", " ", "c", "o", "n", "t", "e", "n", "t", " ",
      "c", "o", "n", "s", "i", "s", "t", "s", " ", "o", "f", " ", "c", "u", "r",
      "a", "t", "e", "d", " ", "c", "o", "n", "t", "e", "x", "t", " ", "f", "o",
      "r", " ", "L", "L", "M", " ", "a", "s", "s", "i", "s", "t", "a", "n", "t",
      "s", ".", "\n", "\n", "-", "-", "-", "\n", "\n">>
CursorHeader ==
    <<"#", " ", "C", "u", "r", "s", "o", "r", " ", "C", "o", "n", "t", "e", "x",
      "t", "\n", "\n">>

\* the backtick character, which a TLA+ string cannot hold
BT == "backtick"

\* %d of a natural number
Digit(n) == <<"0", "1", "2", "3", "4", "5", "6", "7", "8", "9">>[n + 1]
RECURSIVE Decimal(_)
Decimal(n) == IF n < 10 THEN <<Digit(n)>> ELSE Decimal(n \div 10) \o <<Digit(n % 10)>>

\* %s of a source type
TypeText(source_type) ==
    CASE source_type = "file" -> <<"f", "i", "l", "e">>
      [] source_type = "url" -> <<"u", "r", "l">>
      [] source_type = "bookmark" -> <<"b", "o", "o", "k", "m", "a", "r", "k">>
      [] OTHER -> <<"?">>

\* time.Now().Format(time.RFC3339), the clock counting seconds from the epoch
RFC3339(t) ==
    <<"1", "9", "7", "0", "-", "0", "1", "-", "0", "1", "T", "0", "0", ":", "0",
      "0", ":", "0">> \o Decimal(t) \o <<"Z">>

RECURSIVE claudeSections(_, _)
claudeSections(list, i) ==
    IF i > Len(list) THEN <<>>
    ELSE <<"#", "#", " ">> \o Decimal(i) \o <<".", " ">> \o list[i].name
         \o <<"\n", "\n">>
         \o <<"*", "*", "S", "o", "u", "r", "c", "e", ":", "*", "*", " ">>
         \o list[i].path \o <<" ", "(">> \o TypeText(list[i].source_type)
         \o <<")", "\n", "\n">>
         \o <<BT, BT, BT, "\n">> \o list[i].content
         \o <<"\n", BT, BT, BT, "\n", "\n">>
         \o <<"-", "-", "-", "\n", "\n">>
         \o claudeSections(list, i + 1)

\* a Claude format that numbers its sections from 0
RECURSIVE claudeSectionsFromZero(_, _)
claudeSectionsFromZero(list, i) ==
    IF i > Len(list) THEN <<>>
    ELSE <<"#", "#", " ">> \o Decimal(i - 1) \o <<".", " ">> \o list[i].name
         \o <<"\n", "\n">>
         \o <<"*", "*", "S", "o", "u", "r", "c", "e", ":", "*", "*", " ">>
         \o list[i].path \o <<" ", "(">> \o TypeText(list[i].source_type)
         \o <<")", "\n", "\n">>
         \o <<BT, BT, BT, "\n">> \o list[i].content
         \o <<"\n", BT, BT, BT, "\n", "\n">>
         \o <<"-", "-", "-", "\n", "\n">>
         \o claudeSectionsFromZero(list, i + 1)

generateClaudeFormatFromZero(list) == ClaudeHeader \o claudeSectionsFromZero(list, 1)

\* a Claude format that puts the time of the rendering under its header
generateClaudeFormatStamped(list) ==
    ClaudeHeader \o RFC3339(now) \o <<"\n", "\n">> \o claudeSections(list, 1)

generateClaudeFormat(list) == ClaudeHeader \o claudeSections(list, 1)

RECURSIVE cursorSections(_, _)
cursorSections(list, i) ==
    IF i > Len(list) THEN <<>>
    ELSE <<"#", "#", " ">> \o list[i].name \o <<"\n", "\n">>
         \o list[i].content \o <<"\n", "\n">>
         \o cursorSections(list, i + 1)

generateCursorFormat(list) ==
    CursorHeader
    \o <<"G", "e", "n", "e", "r", "a", "t", "e", "d", ":", " ">> \o RFC3339(now)
    \o <<"\n", "\n">>
    \o cursorSections(list, 1)

RECURSIVE defaultSections(_, _)
defaultSections(list, i) ==
    IF i > Len(list) THEN <<>>
    ELSE (IF i > 1 THEN <<"\n", "\n">> ELSE <<>>)
         \o <<"=", "=", "=", " ">> \o list[i].name \o <<" ", "=", "=", "=", "\n">>
         \o list[i].content
         \o defaultSections(list, i + 1)

\* a default format that writes the delimiter lines and no content
RECURSIVE defaultHeadings(_, _)
defaultHeadings(list, i) ==
    IF i > Len(list) THEN <<>>
    ELSE (IF i > 1 THEN <<"\n", "\n">> ELSE <<>>)
         \o <<"=", "=", "=", " ">> \o list[i].name \o <<" ", "=", "=", "=", "\n">>
         \o defaultHeadings(list, i + 1)

generateDefaultFormatHeadingsOnly(list) == defaultHeadings(list, 1)

generateDefaultFormat(list) == defaultSections(list, 1)

---------------------------------------------------------------------------
(* Generate and GenerateToString: what the call returns and leaves        *)
(* behind. listing is what ListEnabledSources returned: (sources, err).   *)

OutputPath == <<"o">>
NoFile == [exists |-> FALSE, content |-> <<>>]
File(content) == [exists |-> TRUE, content |-> content]

Listing(ok, list) == [ok |-> ok, list |-> list]

Generated(result, content, list, r, S, file, hist) ==
    [result |-> result, content |-> content, list |-> list,
     updatedSources |-> r.updatedSources, fetched |-> r.fetched, log |-> r.log,
     sources |-> S, outFile |-> file, history |-> hist]

NothingRefreshed ==
    [updatedSources |-> <<>>, sources |-> sources, fetched |-> <<>>, log |-> <<>>]

\* a GenerateToString that knows three formats and refuses any other
GenerateToStringStrict(format, listing, writeOk) ==
    IF ~listing.ok
    THEN Generated("failed to list enabled sources", <<>>, <<>>, NothingRefreshed,
                   sources, outFile, history)
    ELSE IF Len(listing.list) = 0
    THEN Generated("no enabled sources found", <<>>, <<>>, NothingRefreshed,
                   sources, outFile, history)
    ELSE LET r == checkAndRefreshCache(listing.list, writeOk)
         IN  IF format = FormatClaude
             THEN Generated("ok", generateClaudeFormat(r.updatedSources),
                            listing.list, r, r.sources, outFile, history)
             ELSE IF format = FormatCursor
             THEN Generated("ok", generateCursorFormat(r.updatedSources),
                            listing.list, r, r.sources, outFile, history)
             ELSE IF format = FormatDefault
             THEN Generated("ok", generateDefaultFormat(r.updatedSources),
                            listing.list, r, r.sources, outFile, history)
             ELSE Generated("unknown format", <<>>, listing.list, r, r.sources,
                            outFile, history)

GenerateToString(format, listing, writeOk) ==
    IF ~listing.ok
    THEN Generated("failed to list enabled sources", <<>>, <<>>, NothingRefreshed,
                   sources, outFile, history)
    ELSE IF Len(listing.list) = 0
    THEN Generated("no enabled sources found", <<>>, <<>>, NothingRefreshed,
                   sources, outFile, history)
    ELSE LET r == checkAndRefreshCache(listing.list, writeOk)
             content ==
                 IF format = FormatClaude \/ format = FormatEmpty
                 THEN generateClaudeFormat(r.updatedSources)
                 ELSE IF format = FormatCursor
                 THEN generateCursorFormat(r.updatedSources)
                 ELSE generateDefaultFormat(r.updatedSources)
         IN  Generated("ok", content, listing.list, r, r.sources, outFile, history)

\* a Generate for which a failure of CreateHistory is an error that undoes
\* the composition
GenerateHistoryFatal(format, listing, writeOk, fs, historyOk) ==
    IF ~listing.ok
    THEN Generated("failed to list enabled sources", <<>>, <<>>, NothingRefreshed,
                   sources, outFile, history)
    ELSE IF Len(listing.list) = 0
    THEN Generated("no enabled sources found", <<>>, <<>>, NothingRefreshed,
                   sources, outFile, history)
    ELSE LET r == checkAndRefreshCache(listing.list, writeOk)
             content == generateDefaultFormat(r.updatedSources)
             row == [preset_name |-> <<>>, output_path |-> OutputPath,
                     source_count |-> Len(r.updatedSources)]
         IN  IF fs = "mkdir"
             THEN Generated("failed to create output directory", content,
                            listing.list, r, r.sources, outFile, history)
             ELSE IF fs = "open"
             THEN Generated("failed to write output file", content,
                            listing.list, r, r.sources, outFile, history)
             ELSE IF fs = "write"
             THEN Generated("failed to write output file", content,
                            listing.list, r, r.sources, File(<<>>), history)
             ELSE IF ~historyOk
             THEN Generated("failed to record history", content,
                            listing.list, r, sources, outFile, history)
             ELSE Generated("ok", content, listing.list, r, r.sources,
                            File(content), Append(history, row))

\* a Generate without the check of len(sources)
GenerateNoEmptyCheck(format, listing, writeOk, fs, historyOk) ==
    IF ~listing.ok
    THEN Generated("failed to list enabled sources", <<>>, <<>>, NothingRefreshed,
                   sources, outFile, history)
    ELSE LET r == checkAndRefreshCache(listing.list, writeOk)
             content == generateDefaultFormat(r.updatedSources)
             row == [preset_name |-> <<>>, output_path |-> OutputPath,
                     source_count |-> Len(r.updatedSources)]
         IN  Generated("ok", content, listing.list, r, r.sources, File(content),
                       IF historyOk THEN Append(history, row) ELSE history)

\* a Generate that renders the sources as ListEnabledSources returned them
GenerateRendersListed(format, listing, writeOk, fs, historyOk) ==
    IF ~listing.ok
    THEN Generated("failed to list enabled sources", <<>>, <<>>, NothingRefreshed,
                   sources, outFile, history)
    ELSE IF Len(listing.list) = 0
    THEN Generated("no enabled sources found", <<>>, <<>>, NothingRefreshed,
                   sources, outFile, history)
    ELSE LET r == checkAndRefreshCache(listing.list, writeOk)
             content ==
                 IF format = FormatClaude \/ format = FormatEmpty
                 THEN generateClaudeFormat(listing.list)
                 ELSE IF format = FormatCursor
                 THEN generateCursorFormat(listing.list)
                 ELSE generateDefaultFormat(listing.list)
             row == [preset_name |-> <<>>, output_path |-> OutputPath,
                     source_count |-> Len(r.updatedSources)]
         IN  IF fs = "mkdir"
             THEN Generated("failed to create output directory", content,
                            listing.list, r, r.sources, outFile, history)
             ELSE IF fs = "open"
             THEN Generated("failed to write output file", content,
                            listing.list, r, r.sources, outFile, history)
             ELSE IF fs = "write"
             THEN Generated("failed to write output file", content,
                            listing.list, r, r.sources, File(<<>>), history)
             ELSE Generated("ok", content, listing.list, r, r.sources,
                            File(content),
                            IF historyOk THEN Append(history, row) ELSE history)

\* a Generate that undoes its writes to the table when it cannot write the
\* output
GenerateRollsBack(format, listing, writeOk, fs, historyOk) ==
    IF ~listing.ok
    THEN Generated("failed to list enabled sources", <<>>, <<>>, NothingRefreshed,
                   sources, outFile, history)
    ELSE IF Len(listing.list) = 0
    THEN Generated("no enabled sources found", <<>>, <<>>, NothingRefreshed,
                   sources, outFile, history)
    ELSE LET r == checkAndRefreshCache(listing.list, writeOk)
             content ==
                 IF format = FormatClaude \/ format = FormatEmpty
                 THEN generateClaudeFormat(r.updatedSources)
                 ELSE IF format = FormatCursor
                 THEN generateCursorFormat(r.updatedSources)
                 ELSE generateDefaultFormat(r.updatedSources)
             row == [preset_name |-> <<>>, output_path |-> OutputPath,
                     source_count |-> Len(r.updatedSources)]
         IN  IF fs = "mkdir"
             THEN Generated("failed to create output directory", content,
                            listing.list, r, sources, outFile, history)
             ELSE IF fs = "open"
             THEN Generated("failed to write output file", content,
                            listing.list, r, sources, outFile, history)
             ELSE IF fs = "write"
             THEN Generated("failed to write output file", content,
                            listing.list, r, sources, File(<<>>), history)
             ELSE Generated("ok", content, listing.list, r, r.sources,
                            File(content),
                            IF historyOk THEN Append(history, row) ELSE history)

\* fs: "ok", or the call on the output path that fails: MkdirAll ("mkdir"),
\* WriteFile before it has truncated the file ("open") or after ("write");
\* historyOk = FALSE: CreateHistory returns an error
Generate(format, listing, writeOk, fs, historyOk) ==
    IF ~listing.ok
    THEN Generated("failed to list enabled sources", <<>>, <<>>, NothingRefreshed,
                   sources, outFile, history)
    ELSE IF Len(listing.list) = 0
    THEN Generated("no enabled sources found", <<>>, <<>>, NothingRefreshed,
                   sources, outFile, history)
    ELSE LET r == checkAndRefreshCache(listing.list, writeOk)
             content ==
                 IF format = FormatClaude \/ format = FormatEmpty
                 THEN generateClaudeFormat(r.updatedSources)
                 ELSE IF format = FormatCursor
                 THEN generateCursorFormat(r.updatedSources)
                 ELSE generateDefaultFormat(r.updatedSources)
             row == [preset_name |-> <<>>, output_path |-> OutputPath,
                     source_count |-> Len(r.updatedSources)]
         IN  IF fs = "mkdir"
             THEN Generated("failed to create output directory", content,
                            listing.list, r, r.sources, outFile, history)
             ELSE IF fs = "open"
             THEN Generated("failed to write output file", content,
                            listing.list, r, r.sources, outFile, history)
             ELSE IF fs = "write"
             THEN Generated("failed to write output file", content,
                            listing.list, r, r.sources, File(<<>>), history)
             ELSE Generated("ok", content, listing.list, r, r.sources,
                            File(content),
                            IF historyOk THEN Append(history, row) ELSE history)

---------------------------------------------------------------------------
Init ==
    /\ sources = <<>>
    /\ nextId = 1
    /\ now = 0
    /\ world \in [Locators -> FetchResults]
    /\ history = <<>>
    /\ outFile = NoFile
    /\ genPc = "idle"
    /\ genOpts = [toFile |-> FALSE, format |-> <<>>]
    /\ genList = <<>>
    /\ genUpdated = <<>>
    /\ genFetched = <<>>
    /\ genLog = <<>>
    /\ genResult = ""
    /\ genOut = <<>>
    /\ presetSources = {}
    /\ adding = [p \in Procs |-> NotAdding]
    /\ tui = initialModel(<<>>)

(* The clock advances. *)
Tick ==
    /\ genPc = "idle"
    /\ now < MaxClock
    /\ now' = now + 1
    /\ UNCHANGED <<sources, nextId, world, history, outFile, genVars, presetSources,
                   adding, tui>>

(* Somebody edits a file, a page changes, a server goes away or comes back. *)
EditLocator(loc, r) ==
    /\ genPc = "idle"
    /\ world[loc] # r
    /\ world' = [world EXCEPT ![loc] = r]
    /\ UNCHANGED <<sources, nextId, now, history, outFile, genVars, presetSources,
                   adding, tui>>

(* A command runs from start to end: the table becomes what it leaves. *)
Run(o) ==
    /\ genPc = "idle"
    /\ o.nextId <= MaxId + 1
    /\ sources' = o.sources
    /\ nextId' = o.nextId
    /\ presetSources' = Cascade(presetSources, o.sources)
    /\ UNCHANGED <<now, world, history, outFile, genVars, adding, tui>>

\* the failures the database may show: none, or any
DbOk(faulty) == IF faulty THEN BOOLEAN ELSE {TRUE}

CmdAdd(faulty) ==
    \E name \in Names, source \in Locators, enabled \in BOOLEAN, dbOk \in DbOk(faulty) :
        Run(addSource(name, source, enabled, dbOk))

TuiAdd(faulty) ==
    \E name \in Names, path \in Locators, dbOk \in DbOk(faulty) :
        Run(tuiAddSource(name, path, dbOk))

CmdRemove(faulty) ==
    \E name \in Names, dbOk \in DbOk(faulty) : Run(removeSource(name, dbOk))

CmdToggleOn(faulty) ==
    \E name \in Names, dbOk \in DbOk(faulty) : Run(toggleOn(name, dbOk))

CmdToggleOff(faulty) ==
    \E name \in Names, dbOk \in DbOk(faulty) : Run(toggleOff(name, dbOk))

CmdImportBookmarks ==
    \E file \in BookmarkFiles : Run(importBookmarks(file))

(* A generate runs from start to end; what it returned stays to be read   *)
(* until GenReturn.                                                       *)
Ran(toFile, format, o) ==
    /\ genPc = "idle"
    /\ Len(o.history) <= MaxHistory
    /\ genPc' = "done"
    /\ genOpts' = [toFile |-> toFile, format |-> format]
    /\ genList' = o.list
    /\ genUpdated' = o.updatedSources
    /\ genFetched' = o.fetched
    /\ genLog' = o.log
    /\ genResult' = o.result
    /\ genOut' = o.content
    /\ sources' = o.sources
    /\ outFile' = o.outFile
    /\ history' = o.history
    /\ UNCHANGED <<nextId, now, world, presetSources, adding, tui>>

\* what ListEnabledSources may return
Listings(faulty) ==
    {Listing(TRUE, list) : list \in ListEnabledSources(sources)}
    \cup (IF faulty THEN {Listing(FALSE, <<>>)} ELSE {})

\* context-vacuum generate --format <format> (to stdout)
CmdGenerateToString(format, faulty) ==
    \E listing \in Listings(faulty) :
        \E writeOk \in [1..Len(listing.list) -> DbOk(faulty)] :
            Ran(FALSE, format, GenerateToString(format, listing, writeOk))

\* context-vacuum generate --format <format> --output <path>
CmdGenerate(format, faulty) ==
    \E listing \in Listings(faulty) :
        \E writeOk \in [1..Len(listing.list) -> DbOk(faulty)] :
            \E fs \in (IF faulty THEN {"ok", "mkdir", "open", "write"} ELSE {"ok"}),
               historyOk \in DbOk(faulty) :
                Ran(TRUE, format, Generate(format, listing, writeOk, fs, historyOk))

GenReturn ==
    /\ genPc = "done"
    /\ genPc' = "idle"
    /\ genOpts' = [toFile |-> FALSE, format |-> <<>>]
    /\ genList' = <<>>
    /\ genUpdated' = <<>>
    /\ genFetched' = <<>>
    /\ genLog' = <<>>
    /\ genResult' = ""
    /\ genOut' = <<>>
    /\ UNCHANGED <<sources, nextId, now, world, history, outFile, presetSources,
                   adding, tui>>

---------------------------------------------------------------------------
(* Spec: every command, generate to stdout; the database answers every    *)
(* statement.                                                             *)
Next ==
    \/ Tick
    \/ \E loc \in Locators, r \in FetchResults : EditLocator(loc, r)
    \/ CmdAdd(FALSE)
    \/ TuiAdd(FALSE)
    \/ CmdRemove(FALSE)
    \/ CmdToggleOn(FALSE)
    \/ CmdToggleOff(FALSE)
    \/ CmdImportBookmarks
    \/ CmdGenerateToString(FormatDefault, FALSE)
    \/ GenReturn

Spec == Init /\ [][Next]_vars

(* SpecFault: every command, within one second, and any statement of the *)
(* database may fail.                                                     *)
NextFault ==
    \/ \E loc \in Locators, r \in FetchResults : EditLocator(loc, r)
    \/ CmdAdd(TRUE)
    \/ TuiAdd(TRUE)
    \/ CmdRemove(TRUE)
    \/ CmdToggleOn(TRUE)
    \/ CmdToggleOff(TRUE)
    \/ CmdImportBookmarks
    \/ CmdGenerateToString(FormatDefault, TRUE)
    \/ GenReturn

SpecFault == Init /\ [][NextFault]_vars

(* SpecFile: generate to a file and to stdout, within one second. *)
NextFile ==
    \/ \E loc \in Locators, r \in FetchResults : EditLocator(loc, r)
    \/ CmdAdd(FALSE)
    \/ CmdToggleOn(FALSE)
    \/ CmdToggleOff(FALSE)
    \/ CmdGenerateToString(FormatDefault, FALSE)
    \/ CmdGenerate(FormatDefault, FALSE)
    \/ GenReturn

SpecFile == Init /\ [][NextFile]_vars

(* SpecClock: add, the toggles and generate to stdout, as time passes. *)
NextClock ==
    \/ Tick
    \/ \E loc \in Locators, r \in FetchResults : EditLocator(loc, r)
    \/ CmdAdd(FALSE)
    \/ TuiAdd(FALSE)
    \/ CmdToggleOn(FALSE)
    \/ CmdToggleOff(FALSE)
    \/ CmdGenerateToString(FormatDefault, FALSE)
    \/ GenReturn

SpecClock == Init /\ [][NextClock]_vars

(* SpecFileFault: add and generate to a file, within one second; any     *)
(* statement of generate and any of its calls on the output path may     *)
(* fail.                                                                  *)
NextFileFault ==
    \/ \E loc \in Locators, r \in FetchResults : EditLocator(loc, r)
    \/ CmdAdd(FALSE)
    \/ CmdGenerate(FormatDefault, TRUE)
    \/ GenReturn

SpecFileFault == Init /\ [][NextFileFault]_vars

(* SpecRace: two processes run add on one database at the same time. An  *)
(* add is two steps, as the database sees it: the lookup of the name      *)
(* (after the fetch), then the statement that writes.                     *)

\* addSource up to GetSourceByName: the fetch, then the lookup
AddLookup(p, name, source, enabled) ==
    LET r == IF IsURL(source) THEN ParseURL(source) ELSE ParseFile(source)
        found == HasName(sources, name)
    IN  /\ adding[p].pc = "idle"
        /\ adding' = [adding EXCEPT ![p] =
               [pc |-> IF r.ok THEN "looked" ELSE "done",
                name |-> name, source |-> source, enabled |-> enabled,
                fetched |-> r,
                found |-> r.ok /\ found,
                id |-> IF r.ok /\ found THEN GetSourceByName(sources, name).id ELSE 0,
                status |-> IF r.ok THEN ""
                           ELSE IF IsURL(source) THEN "failed to parse URL"
                           ELSE "failed to parse file"]]
        /\ UNCHANGED <<sources, nextId, now, world, history, outFile, genVars,
                       presetSources, tui>>

\* addSource from there: UpdateSourceContent of the row found, or CreateSource
AddWrite(p) ==
    LET a == adding[p]
        sourceType == IF IsURL(a.source) THEN "url" ELSE "file"
        hash == ComputeHash(a.fetched.content)
        enabledInt == IF a.enabled THEN 1 ELSE 0
    IN  /\ a.pc = "looked"
        /\ IF a.found
           THEN /\ sources' = UpdateSourceContent(sources, a.id, a.fetched.content,
                                                  hash, now)
                /\ nextId' = nextId
                /\ adding' = [adding EXCEPT ![p].pc = "done",
                                            ![p].status = "Updated source"]
           ELSE IF CanCreateSource(sources, a.name, sourceType)
           THEN /\ nextId <= MaxId
                /\ sources' = CreateSource(sources, nextId, a.name, sourceType,
                                  a.source, a.fetched.content, hash, enabledInt, now)
                /\ nextId' = nextId + 1
                /\ adding' = [adding EXCEPT ![p].pc = "done",
                                            ![p].status = "Added source"]
           ELSE /\ UNCHANGED <<sources, nextId, tui>>
                /\ adding' = [adding EXCEPT ![p].pc = "done",
                                            ![p].status = "failed to create source"]
        /\ UNCHANGED <<now, world, history, outFile, genVars, presetSources, tui>>

\* the process has printed its line, or its error, and ends
AddReturn(p) ==
    /\ adding[p].pc = "done"
    /\ adding' = [adding EXCEPT ![p] = NotAdding]
    /\ UNCHANGED <<sources, nextId, now, world, history, outFile, genVars,
                   presetSources, tui>>

NextRace ==
    \/ \E p \in Procs, name \in Names, source \in Locators, enabled \in BOOLEAN :
           AddLookup(p, name, source, enabled)
    \/ \E p \in Procs : AddWrite(p)
    \/ \E p \in Procs : AddReturn(p)

SpecRace == Init /\ [][NextRace]_vars

(* SpecPreset: add and remove on a database whose preset_sources table   *)
(* is written through the AddSourceToPreset and RemoveSourceFromPreset    *)
(* queries.                                                               *)
PresetAdd ==
    /\ genPc = "idle"
    /\ \E preset_id \in PresetIds, source_id \in DOMAIN sources :
        /\ CanAddSourceToPreset(presetSources, sources, preset_id, source_id)
        /\ presetSources' = AddSourceToPreset(presetSources, preset_id, source_id)
    /\ UNCHANGED <<sources, nextId, now, world, history, outFile, genVars, adding,
                   tui>>

PresetRemove ==
    /\ genPc = "idle"
    /\ \E m \in presetSources :
        presetSources' = RemoveSourceFromPreset(presetSources, m.preset_id, m.source_id)
    /\ UNCHANGED <<sources, nextId, now, world, history, outFile, genVars, adding,
                   tui>>

NextPreset ==
    \/ \E loc \in Locators, r \in FetchResults : EditLocator(loc, r)
    \/ CmdAdd(FALSE)
    \/ CmdRemove(FALSE)
    \/ CmdToggleOff(FALSE)
    \/ PresetAdd
    \/ PresetRemove

SpecPreset == Init /\ [][NextPreset]_vars

(* SpecRender: add, and generate to stdout in every format, as time      *)
(* passes.                                                                *)
Formats == {FormatClaude, FormatCursor, FormatDefault, FormatEmpty, FormatOther}

NextRender ==
    \/ Tick
    \/ \E loc \in Locators, r \in FetchResults : EditLocator(loc, r)
    \/ CmdAdd(FALSE)
    \/ \E format \in Formats : CmdGenerateToString(format, FALSE)
    \/ GenReturn

SpecRender == Init /\ [][NextRender]_vars

(* SpecStamp: add, and generate to stdout in the three formats that have *)
(* a name, as time passes; the locators stay as they are.                 *)
NextStamp ==
    \/ Tick
    \/ CmdAdd(FALSE)
    \/ \E format \in {FormatClaude, FormatCursor, FormatDefault} :
           CmdGenerateToString(format, FALSE)
    \/ GenReturn

SpecStamp == Init /\ [][NextStamp]_vars

(* SpecSize: add and generate to stdout, within one second; a file or a *)
(* page may grow beyond what the parser reads.                           *)
NextSize ==
    \/ \E loc \in Locators, r \in FetchResults \cup {Fetched(BigContent)} :
           EditLocator(loc, r)
    \/ CmdAdd(FALSE)
    \/ CmdGenerateToString(FormatDefault, FALSE)
    \/ GenReturn

SpecSize == Init /\ [][NextSize]_vars

(* SpecTui: one TUI on a database with no sources; a statement that      *)
(* writes the table may fail, ListSources answers. The file can be read, *)
(* the page cannot be fetched.                                            *)
InitTui ==
    /\ sources = <<>>
    /\ nextId = 1
    /\ now = 0
    /\ world = [loc \in Locators |->
                   IF loc = FilePath THEN Fetched(<<"a">>) ELSE FetchErr]
    /\ history = <<>>
    /\ outFile = NoFile
    /\ genPc = "idle"
    /\ genOpts = [toFile |-> FALSE, format |-> <<>>]
    /\ genList = <<>>
    /\ genUpdated = <<>>
    /\ genFetched = <<>>
    /\ genLog = <<>>
    /\ genResult = ""
    /\ genOut = <<>>
    /\ presetSources = {}
    /\ adding = [p \in Procs |-> NotAdding]
    /\ tui = initialModel(<<>>)

KeyPress(key) ==
    /\ genPc = "idle"
    /\ ~tui.quit
    /\ \E dbOk \in BOOLEAN :
          \E u \in Update(tui, key, dbOk, TRUE) :
              /\ u.nextId <= MaxId + 1
              /\ tui' = u.m
              /\ sources' = u.sources
              /\ nextId' = u.nextId
              /\ presetSources' = Cascade(presetSources, u.sources)
    /\ UNCHANGED <<now, world, history, outFile, genVars, adding>>

NextTui == \E key \in Keys : KeyPress(key)

SpecTui == InitTui /\ [][NextTui]_vars

(* SpecRemoveRace: a generate to stdout in two steps, as the database    *)
(* sees it: ListEnabledSources, then the refresh and the rendering; in   *)
(* between, another process may remove a source.                         *)

\* GenerateToString up to the check of len(sources)
GenList ==
    /\ genPc = "idle"
    /\ \E list \in ListEnabledSources(sources) :
          IF Len(list) = 0
          THEN /\ genPc' = "done"
               /\ genResult' = "no enabled sources found"
               /\ genList' = <<>>
          ELSE /\ genPc' = "listed"
               /\ genResult' = ""
               /\ genList' = list
    /\ genOpts' = [toFile |-> FALSE, format |-> FormatDefault]
    /\ UNCHANGED <<sources, nextId, now, world, history, outFile, genUpdated,
                   genFetched, genLog, genOut, presetSources, adding, tui>>

\* GenerateToString from checkAndRefreshCache to its return
GenRefresh ==
    /\ genPc = "listed"
    /\ LET o == GenerateToString(genOpts.format, Listing(TRUE, genList),
                                 [i \in 1..Len(genList) |-> TRUE])
       IN  /\ genPc' = "done"
           /\ genUpdated' = o.updatedSources
           /\ genFetched' = o.fetched
           /\ genLog' = o.log
           /\ genResult' = o.result
           /\ genOut' = o.content
           /\ sources' = o.sources
    /\ UNCHANGED <<nextId, now, world, history, outFile, genOpts, genList,
                   presetSources, adding, tui>>

\* context-vacuum remove <name>, in another process, while the generate is
\* between its two steps
RemoveMeanwhile ==
    /\ genPc = "listed"
    /\ \E name \in Names :
          LET o == removeSource(name, TRUE)
          IN  /\ HasName(sources, name)
              /\ sources' = o.sources
              /\ presetSources' = Cascade(presetSources, o.sources)
    /\ UNCHANGED <<nextId, now, world, history, outFile, genVars, adding, tui>>

NextRemoveRace ==
    \/ \E loc \in Locators, r \in FetchResults : EditLocator(loc, r)
    \/ CmdAdd(FALSE)
    \/ GenList
    \/ RemoveMeanwhile
    \/ GenRefresh
    \/ GenReturn

SpecRemoveRace == Init /\ [][NextRemoveRace]_vars

(* SpecAnyKind: checkAndRefreshCache on rows of any source_type. The table *)
(* is one that was filled without the CHECK on source_type (the schema is *)
(* applied with CREATE TABLE IF NOT EXISTS, which leaves an older table   *)
(* as it is): up to two rows, of a known type or of type "note".          *)
AnyKindRow(id, name, source_type, content, enabled) ==
    [id |-> id, name |-> name, source_type |-> source_type,
     path |-> IF source_type = "url" THEN UrlPath ELSE FilePath,
     content |-> content, hash |-> ComputeHash(content), enabled |-> enabled,
     created_at |-> id - 1, updated_at |-> id - 1]

InitAnyKind ==
    /\ \E t1, t2 \in {"file", "url", "note"}, c1, c2 \in Contents, e2 \in {0, 1} :
          sources = <<AnyKindRow(1, NameA, t1, c1, 1), AnyKindRow(2, NameB, t2, c2, e2)>>
    /\ nextId = 3
    /\ now = 1
    /\ world \in [Locators -> FetchResults]
    /\ history = <<>>
    /\ outFile = NoFile
    /\ genPc = "idle"
    /\ genOpts = [toFile |-> FALSE, format |-> <<>>]
    /\ genList = <<>>
    /\ genUpdated = <<>>
    /\ genFetched = <<>>
    /\ genLog = <<>>
    /\ genResult = ""
    /\ genOut = <<>>
    /\ presetSources = {}
    /\ adding = [p \in Procs |-> NotAdding]
    /\ tui = initialModel(<<>>)

NextAnyKind ==
    \/ \E loc \in Locators, r \in FetchResults : EditLocator(loc, r)
    \/ CmdToggleOn(FALSE)
    \/ CmdToggleOff(FALSE)
    \/ CmdGenerateToString(FormatDefault, FALSE)
    \/ GenReturn

SpecAnyKind == InitAnyKind /\ [][NextAnyKind]_vars
---------------------------------------------------------------------------
(* Properties. A generate is read in the state it leaves, before          *)
(* GenReturn: genList is what ListEnabledSources returned, genFetched[i]  *)
(* what the parser answered for genList[i], genLog[i] what was logged for *)
(* it, genUpdated the reconciled sources, genOut the composed text.       *)

Done == genPc = "done"

\* the delimiter line of a source in the default format, then its content
Section(name, content) ==
    <<"=", "=", "=", " ">> \o name \o <<" ", "=", "=", "=", "\n">> \o content

\* the fetch of genList[i] succeeded and returned what the store holds
FetchedSame(i) == genFetched[i].ok /\ genFetched[i].content = genList[i].content

\* the fetch of genList[i] succeeded and returned something else
FetchedOther(i) == genFetched[i].ok /\ genFetched[i].content # genList[i].content

\* the row of genList[i] is in the table as the generate read it
RowUntouched(i) ==
    /\ genList[i].id \in DOMAIN sources
    /\ sources[genList[i].id] = genList[i]

\* C1: when the freshly fetched content of an enabled source equals its
\* stored content, one generate writes nothing for that source (its row,
\* updated_at included, is as it was read), and the reconciled entry is the
\* stored one.
C1_NoOpRefresh ==
    (Done /\ genResult = "ok") =>
        \A i \in DOMAIN genList :
            FetchedSame(i) =>
                /\ RowUntouched(i)
                /\ i \in DOMAIN genUpdated
                /\ genUpdated[i] = genList[i]
                /\ genLog[i] = LogNothing

\* a generate found a source unchanged, later than the row was last written
C1_Witness ==
    /\ Done
    /\ genResult = "ok"
    /\ \E i \in DOMAIN genList : FetchedSame(i) /\ now > genList[i].updated_at

\* C2: when the fetch of an enabled source fails during a generate, the
\* reconciled entry is the cached one, its row is not written, the generate
\* succeeds, and every source of the list, the failed one and the others, is
\* rendered with its reconciled content.
C2_FailOpen ==
    Done =>
        \A i \in DOMAIN genList :
            ~genFetched[i].ok =>
                /\ genResult = "ok"
                /\ Len(genUpdated) = Len(genList)
                /\ genUpdated[i] = genList[i]
                /\ RowUntouched(i)
                /\ genLog[i] = LogCheckFailed
                /\ \A j \in DOMAIN genList :
                    /\ genUpdated[j].id = genList[j].id
                    /\ genFetched[j].ok =>
                           genUpdated[j].content = genFetched[j].content
                    /\ Contains(genOut, Section(genUpdated[j].name,
                                                genUpdated[j].content))

\* a generate in which one fetch failed, later than that row was last
\* written, and another source was refreshed
C2_Witness ==
    /\ Done
    /\ \E i, j \in DOMAIN genList :
        /\ ~genFetched[i].ok
        /\ now > genList[i].updated_at
        /\ genLog[j] = LogRefreshed

\* C3: when the fetch of an enabled source succeeds with content other than
\* the stored content, after the generate the row holds the fetched content
\* and its digest (and nothing else of the row changed but updated_at), the
\* reconciled entry and the output carry the fetched content, and the rows
\* of the sources found unchanged are untouched.
C3_WriteBack ==
    (Done /\ genResult = "ok") =>
        \A i \in DOMAIN genList :
            FetchedOther(i) =>
                /\ genList[i].id \in DOMAIN sources
                /\ sources[genList[i].id] =
                       [genList[i] EXCEPT !.content = genFetched[i].content,
                                          !.hash = ComputeHash(genFetched[i].content),
                                          !.updated_at = now]
                /\ i \in DOMAIN genUpdated
                /\ genUpdated[i] =
                       [genList[i] EXCEPT !.content = genFetched[i].content,
                                          !.hash = ComputeHash(genFetched[i].content)]
                /\ genUpdated[i].content # genList[i].content
                /\ Contains(genOut, Section(genList[i].name, genFetched[i].content))
                /\ \A j \in DOMAIN genList : FetchedSame(j) => RowUntouched(j)

\* a generate refreshed one source and found another unchanged
C3_Witness ==
    /\ Done
    /\ genResult = "ok"
    /\ \E i, j \in DOMAIN genList :
        /\ FetchedOther(i)
        /\ genLog[i] = LogRefreshed
        /\ FetchedSame(j)

\* C4: in every state, whatever commands ran and however they ended, the
\* hash of every row is the digest of the row's content.
C4_FingerprintConsistency ==
    \A id \in DOMAIN sources : sources[id].hash = ComputeHash(sources[id].content)

\* a generate wrote one row and failed to write another
C4_Witness ==
    /\ Done
    /\ \E i, j \in DOMAIN genList :
        /\ genLog[i] = LogRefreshed
        /\ genLog[j] = LogUpdateFailed
        /\ sources[genList[i].id].content # genList[i].content

\* C5: the reconciled sources, and so the sections of the output, are in
\* the order the sources were created (ids are handed out in creation
\* order), sources created within one second included.
C5_CreationOrder ==
    (Done /\ genResult = "ok") =>
        \A i, j \in DOMAIN genUpdated :
            i < j => genUpdated[i].id < genUpdated[j].id

\* C6: a generate, to a file or to stdout, that finds no enabled source
\* answers "no enabled sources found", fetches nothing, composes nothing,
\* and leaves the table, the output file and the history as they were.
C6_EmptySetRejection ==
    [][(/\ genPc = "idle"
        /\ genPc' = "done"
        /\ \A id \in DOMAIN sources : sources[id].enabled # 1)
       => (/\ genResult' = "no enabled sources found"
           /\ genFetched' = <<>>
           /\ genUpdated' = <<>>
           /\ genOut' = <<>>
           /\ sources' = sources
           /\ outFile' = outFile
           /\ history' = history)]_vars

\* a generate to a file was rejected while the table held only disabled
\* sources and an earlier output and its history row were there
C6_Witness ==
    /\ Done
    /\ genOpts.toFile
    /\ genResult = "no enabled sources found"
    /\ DOMAIN sources # {}
    /\ outFile.exists
    /\ history # <<>>

Upserted(o, ok, name, fetched) ==
    LET id == GetSourceByName(sources, name).id
    IN  /\ o.status = ok
        /\ DOMAIN o.sources = DOMAIN sources
        /\ o.nextId = nextId
        /\ o.sources[id].name = name
        /\ o.sources[id].content = fetched
        /\ o.sources[id].hash = ComputeHash(fetched)
        /\ \A other \in DOMAIN sources \ {id} : o.sources[other] = sources[other]

\* C9: no two rows have the same name; and an add (from the command line or
\* from the TUI) of a name the table holds, with a locator that can be
\* fetched, replaces that row's content and hash, leaves the number of rows
\* and the other rows as they are, and reports success.
C9_NameUniqueUpsert ==
    /\ \A i, j \in DOMAIN sources : sources[i].name = sources[j].name => i = j
    /\ \A name \in Names, source \in Locators :
        (HasName(sources, name) /\ world[source].ok) =>
            /\ \A enabled \in BOOLEAN :
                Upserted(addSource(name, source, enabled, TRUE), "Updated source",
                         name, world[source].content)
            /\ Upserted(tuiAddSource(name, source, TRUE), "nil",
                        name, world[source].content)

\* two sources are in the table, and an add of one of their names with a
\* locator whose content the row does not hold replaces that content
C9_Witness ==
    /\ genPc = "idle"
    /\ Cardinality(DOMAIN sources) = 2
    /\ \E name \in Names, source \in Locators :
        /\ HasName(sources, name)
        /\ world[source].ok
        /\ GetSourceByName(sources, name).content # world[source].content
        /\ GetSourceByName(sources, name).path # source
        /\ addSource(name, source, TRUE, TRUE).sources # sources

\* genList[i] is a source as it was created (no write since), whose locator
\* still yields the content it was created with
AsCreated(i) ==
    /\ genList[i].updated_at = genList[i].created_at
    /\ FetchedSame(i)

GenerateStep == genPc = "idle" /\ genPc' = "done" /\ genList' # <<>>

\* C11: the sources a generate lists, reconciles and renders are exactly
\* the rows with enabled = 1 when it lists; a row with enabled # 1 is not
\* fetched, is left as it is by the refresh, and its delimiter line is not
\* in the output.
C11_OnlyEnabled ==
    [][GenerateStep =>
        /\ {genList'[i].id : i \in DOMAIN genList'}
               = {id \in DOMAIN sources : sources[id].enabled = 1}
        /\ {genUpdated'[i].id : i \in DOMAIN genUpdated'}
               = {id \in DOMAIN sources : sources[id].enabled = 1}
        /\ Len(genUpdated') = Cardinality({id \in DOMAIN sources : sources[id].enabled = 1})
        /\ Len(genFetched') = Len(genList')
        /\ \A id \in DOMAIN sources :
            sources[id].enabled # 1 =>
                /\ id \in DOMAIN sources'
                /\ sources'[id] = sources[id]
                /\ ~Contains(genOut', Section(sources[id].name, <<>>))]_vars

\* a generate ran over an enabled source while a disabled source was stale:
\* its locator yields content that its row does not hold
C11_Witness ==
    /\ Done
    /\ genResult = "ok"
    /\ \E id \in DOMAIN sources :
        /\ sources[id].enabled = 0
        /\ world[sources[id].path].ok
        /\ world[sources[id].path].content # sources[id].content
        /\ \A i \in DOMAIN genList : genList[i].id # id

\* C12: toggle-on, toggle-off and remove of a name the table does not hold
\* report an error (and not success), and leave the table as it is.
C12_NotFound ==
    \A name \in Names :
        ~HasName(sources, name) =>
            /\ toggleOn(name, TRUE).status # "Enabled source"
            /\ toggleOff(name, TRUE).status # "Disabled source"
            /\ removeSource(name, TRUE).status # "Removed source"
            /\ toggleOn(name, TRUE).sources = sources
            /\ toggleOff(name, TRUE).sources = sources
            /\ removeSource(name, TRUE).sources = sources

\* C13: a remove of a name the table holds leaves no row of that name: the
\* lookup by name fails, the full list and the enabled list do not hold it,
\* the preset_sources rows of its id are gone and no other is, and every
\* other row is as it was.
C13_Removal ==
    [][\A name \in Names :
        (/\ genPc = "idle"
         /\ HasName(sources, name)
         /\ sources' = removeSource(name, TRUE).sources
         /\ nextId' = nextId)
        => LET id == GetSourceByName(sources, name).id
           IN  /\ ~HasName(sources', name)
               /\ \A list \in ListSources(sources') :
                      \A k \in DOMAIN list : list[k].name # name /\ list[k].id # id
               /\ \A list \in ListEnabledSources(sources') :
                      \A k \in DOMAIN list : list[k].name # name /\ list[k].id # id
               /\ presetSources' = {m \in presetSources : m.source_id # id}
               /\ \A m \in presetSources' : m.source_id \in DOMAIN sources'
               /\ DOMAIN sources' = DOMAIN sources \ {id}
               /\ \A other \in DOMAIN sources' : sources'[other] = sources[other]]_vars

\* the first source was removed; the source added after it is there, in
\* both presets
C13_Witness ==
    /\ 1 \notin DOMAIN sources
    /\ 2 \in DOMAIN sources
    /\ presetSources = {Membership(preset_id, 2) : preset_id \in PresetIds}

\* what a toggle to value enabled does to a name the table holds: o is the
\* command's outcome, ok what it reports
Toggled(o, ok, name, enabled) ==
    LET id == GetSourceByName(sources, name).id
    IN  /\ o.status = ok
        /\ o.nextId = nextId
        /\ DOMAIN o.sources = DOMAIN sources
        /\ o.sources[id] = [sources[id] EXCEPT !.enabled = enabled, !.updated_at = now]
        /\ \A other \in DOMAIN sources \ {id} : o.sources[other] = sources[other]
        /\ \A t \in now..MaxClock :
               UpdateSourceEnabled(o.sources, name, enabled, t)
                   = [o.sources EXCEPT ![id].updated_at = t]

\* C14: toggle-on / toggle-off of a name the table holds sets enabled of
\* that row to the value asked for, and changes nothing else but the row's
\* updated_at: id, name, kind, locator, content, hash and created_at of the
\* row and every other row are as they were; the same toggle applied again
\* leaves the row as the first left it, updated_at aside.
C14_ToggleFrame ==
    \A name \in Names :
        HasName(sources, name) =>
            /\ Toggled(toggleOn(name, TRUE), "Enabled source", name, 1)
            /\ Toggled(toggleOff(name, TRUE), "Disabled source", name, 0)

\* two sources, one of them disabled by a write later than its creation
C14_Witness ==
    /\ genPc = "idle"
    /\ Cardinality(DOMAIN sources) = 2
    /\ \E id \in DOMAIN sources :
        /\ sources[id].enabled = 0
        /\ sources[id].updated_at > sources[id].created_at
        /\ sources[id].updated_at = now

\* C15: no step changes the kind of a row: whatever add, re-add (with a
\* locator of the other kind too), toggle, import-bookmarks, remove or
\* generate does, a row that is there before and after has the source_type
\* it had; ids are not handed out twice, so that is the kind the source was
\* created with.
C15_KindImmutable ==
    [][/\ \A id \in DOMAIN sources \cap DOMAIN sources' :
            sources'[id].source_type = sources[id].source_type
       /\ \A id \in DOMAIN sources' \ DOMAIN sources : id >= nextId
       /\ nextId' >= nextId]_vars

\* a file source holds what the URL yields and not what its file yields:
\* its name was added again with the URL
C15_Witness ==
    \E id \in DOMAIN sources :
        /\ sources[id].source_type = "file"
        /\ sources[id].path = FilePath
        /\ world[UrlPath].ok
        /\ sources[id].content = world[UrlPath].content
        /\ world[FilePath].ok
        /\ sources[id].content # world[FilePath].content

\* the rows that are there before and after the step
Kept == DOMAIN sources \cap DOMAIN sources'

\* C16 as stated: updated_at of a row changes in a step only if the step
\* changes the row's content or hash, or its enabled flag.
C16_UpdatedAtOnlyOnChange ==
    [][\A id \in Kept :
        sources'[id].updated_at # sources[id].updated_at =>
            \/ sources'[id].content # sources[id].content
            \/ sources'[id].hash # sources[id].hash
            \/ sources'[id].enabled # sources[id].enabled]_vars

\* C16, amended: updated_at of a row changes only to the time of a
\* statement that writes the row; every toggle and every add of a name the
\* table holds (with a locator that can be fetched) sets it to that time,
\* whether or not enabled or content differ from what the row holds; a
\* generate changes it only for a source whose content it replaces.
C16_UpdatedAtOnWrite ==
    [][/\ \A id \in Kept :
            sources'[id].updated_at # sources[id].updated_at =>
                /\ sources'[id].updated_at = now
                /\ genPc' = "done" => sources'[id].content # sources[id].content
       /\ \A name \in Names :
            HasName(sources, name) =>
                LET id == GetSourceByName(sources, name).id
                IN  /\ toggleOn(name, TRUE).sources[id].updated_at = now
                    /\ toggleOff(name, TRUE).sources[id].updated_at = now
                    /\ \A source \in Locators :
                        world[source].ok =>
                            /\ addSource(name, source, TRUE, TRUE).sources[id].updated_at = now
                            /\ tuiAddSource(name, source, TRUE).sources[id].updated_at = now]_vars

\* an enabled source, still as it was created and as its locator yields
\* it, at a later time: toggle-on or an add of its name now writes
\* updated_at and nothing else
C16_Witness ==
    /\ genPc = "idle"
    /\ \E id \in DOMAIN sources :
        /\ sources[id].enabled = 1
        /\ sources[id].updated_at = sources[id].created_at
        /\ now > sources[id].updated_at
        /\ world[sources[id].path] = Fetched(sources[id].content)
        /\ toggleOn(sources[id].name, TRUE).sources
               = [sources EXCEPT ![id].updated_at = now]
        /\ addSource(sources[id].name, sources[id].path, TRUE, TRUE).sources
               = [sources EXCEPT ![id].updated_at = now]

\* the step is a generate, from its call to its return
Composition == genPc = "idle" /\ genPc' = "done"

\* the step appends one history row, which counts the sources rendered
RecordsOne ==
    /\ Len(history') = Len(history) + 1
    /\ SubSeq(history', 1, Len(history)) = history
    /\ history'[Len(history')].source_count = Len(genUpdated')

\* C17: every successful composition, to a file or to stdout,
\* appends exactly one history row whose source_count is the number of
\* sources rendered; a failed composition appends none.
C17_HistoryOnEveryComposition ==
    [][Composition =>
        IF genResult' = "ok" THEN RecordsOne ELSE history' = history]_vars

\* C17, as the code has it: a successful composition to a file appends
\* exactly one history row (the database answering), with the output path
\* and with source_count the number of sources rendered; a composition to
\* stdout appends none, and neither does a failed composition.
C17_HistoryOnFileComposition ==
    [][Composition =>
        IF genResult' = "ok" /\ genOpts'.toFile
        THEN /\ RecordsOne
             /\ history'[Len(history')].output_path = OutputPath
             /\ history'[Len(history')].source_count = Len(genList')
        ELSE history' = history]_vars

\* a composition to stdout succeeded and left the history at the one row
\* of an earlier composition to a file
C17_Witness ==
    /\ Done
    /\ genResult = "ok"
    /\ ~genOpts.toFile
    /\ outFile.exists
    /\ Len(history) = 1
    /\ history[1].source_count >= 1

\* C18: when CreateHistory fails after the output file is written, Generate
\* returns success all the same, the output file holds the rendered
\* content, no history row is added, and the table is what the refresh left
\* (what it is when CreateHistory succeeds): every source the refresh wrote
\* holds the fetched content.
C18_HistoryFailureNonFatal ==
    genPc = "idle" =>
        \A listing \in Listings(FALSE) :
            listing.list # <<>> =>
                \A writeOk \in [1..Len(listing.list) -> BOOLEAN] :
                    LET o == Generate(FormatDefault, listing, writeOk, "ok", FALSE)
                        recorded == Generate(FormatDefault, listing, writeOk, "ok", TRUE)
                    IN  /\ o.result = "ok"
                        /\ o.outFile = File(o.content)
                        /\ o.content = recorded.content
                        /\ o.history = history
                        /\ o.sources = recorded.sources
                        /\ \A i \in DOMAIN listing.list :
                            o.log[i] = LogRefreshed =>
                                /\ o.fetched[i].content # listing.list[i].content
                                /\ o.sources[listing.list[i].id].content
                                       = o.fetched[i].content

\* a generate to a file returned success, wrote the file and refreshed a
\* source, and the history has no row: CreateHistory failed
C18_Witness ==
    /\ Done
    /\ genOpts.toFile
    /\ genResult = "ok"
    /\ history = <<>>
    /\ outFile = File(genOut)
    /\ \E i \in DOMAIN genList :
        /\ genLog[i] = LogRefreshed
        /\ sources[genList[i].id].content = genFetched[i].content
        /\ Contains(genOut, Section(genList[i].name, genFetched[i].content))

\* C19: when two adds of one name both find the name not there and both go
\* on to create it, neither ends in an error, and one row of that name is
\* there afterwards.
C19_RaceFallback ==
    \A p, q \in Procs :
        (/\ p # q
         /\ adding[p].pc = "done"
         /\ adding[q].pc = "done"
         /\ adding[p].fetched.ok
         /\ adding[q].fetched.ok
         /\ adding[p].name = adding[q].name
         /\ ~adding[p].found
         /\ ~adding[q].found)
        => /\ adding[p].status \in {"Added source", "Updated source"}
           /\ adding[q].status \in {"Added source", "Updated source"}
           /\ Cardinality({id \in DOMAIN sources : sources[id].name = adding[p].name}) = 1

\* the import of one bookmark, as a file of its own
ImportOne(b) == importBookmarks([ok |-> TRUE, bookmarks |-> <<b>>])

\* a bookmark whose page can be fetched, whose title no source has, and
\* for which there is room in the table
Importable(b) ==
    /\ ParseURL(b.url).ok
    /\ ~HasName(sources, b.title)
    /\ nextId <= MaxId

\* C20: no operation's outcome depends on the fingerprint of one source
\* being equal to that of another: a bookmark that can be fetched and whose
\* title is new is imported, whatever the fingerprints of the sources the
\* store holds.
C20_NoCrossSourceComparison ==
    \A b \in Bookmarks :
        (genPc = "idle" /\ Importable(b)) => ImportOne(b).imported = 1

\* C20, amended: import-bookmarks skips a bookmark exactly when the digest of
\* its page is the fingerprint of some source of the store, whichever; add
\* decides between create and update by the name alone, and generate
\* replaces the content of a source exactly when the content fetched for it
\* differs from its own.
C20_ImportComparesAcrossSources ==
    /\ \A b \in Bookmarks :
           (genPc = "idle" /\ Importable(b))
           => /\ ImportOne(b).imported \in {0, 1}
              /\ ImportOne(b).imported = 0
                 <=> HasHash(sources, ComputeHash(ParseURL(b.url).content))
              /\ ImportOne(b).imported = 0 => ImportOne(b).sources = sources
    /\ \A name \in Names, source \in Locators, enabled \in BOOLEAN :
           (/\ genPc = "idle"
            /\ nextId <= MaxId
            /\ (IF IsURL(source) THEN ParseURL(source) ELSE ParseFile(source)).ok)
           => addSource(name, source, enabled, TRUE).status =
                  IF HasName(sources, name) THEN "Updated source" ELSE "Added source"
    /\ Done => \A i \in 1..Len(genList) :
           genLog[i] \in {LogRefreshed, LogUpdateFailed} <=> FetchedOther(i)

\* a bookmark with a new title whose page is, byte for byte, the content of
\* a source of another name: the import leaves it out
C20_Witness ==
    /\ genPc = "idle"
    /\ \E b \in Bookmarks :
           /\ Importable(b)
           /\ \E i \in DOMAIN sources :
                  /\ sources[i].name # b.title
                  /\ sources[i].hash = ComputeHash(ParseURL(b.url).content)
           /\ ImportOne(b).imported = 0

\* the lines of a text: line n runs from LineStart to LineEnd - 1
NewlinePositions(s) == {i \in 1..Len(s) : s[i] = "\n"}
LineCount(s) == Cardinality(NewlinePositions(s)) + 1
NthNewline(s, n) ==
    LET nl == NewlinePositions(s)
    IN  CHOOSE i \in nl : Cardinality({j \in nl : j < i}) = n - 1
LineStart(s, n) == IF n = 1 THEN 1 ELSE NthNewline(s, n - 1) + 1
LineEnd(s, n) == IF n = LineCount(s) THEN Len(s) + 1 ELSE NthNewline(s, n)
Line(s, n) == SubSeq(s, LineStart(s, n), LineEnd(s, n) - 1)
WithoutLine(s, n) ==
    SubSeq(s, 1, LineStart(s, n) - 1) \o SubSeq(s, LineEnd(s, n), Len(s))

\* the line of the Cursor format that holds the time
TimestampLine == 3

\* the lists a generate may come to render: the table, or its enabled
\* rows, in an order of the store, and the list last reconciled
Renderable == ListSources(sources) \cup ListEnabledSources(sources) \cup {genUpdated}

\* a and b are the same text, but for one line
SameButLine(a, b, n) ==
    /\ LineCount(a) = LineCount(b)
    /\ n <= LineCount(a)
    /\ WithoutLine(a, n) = WithoutLine(b, n)

\* all writes of a refresh succeed
AllWritesOk(list) == [i \in 1..Len(list) |-> TRUE]

\* C21: the Claude and the default rendering of a list of sources are the
\* same text whenever they are made (before and after any step of the
\* program: the clock, the locators and the store may change), the Cursor
\* rendering is the same but for its timestamp line, and a generate, in
\* whatever format, leaves the store and the list as the refresh left them.
C21_RenderingDeterminism ==
    [][/\ \A list \in Renderable :
            /\ generateClaudeFormat(list)' = generateClaudeFormat(list)
            /\ generateDefaultFormat(list)' = generateDefaultFormat(list)
            /\ \A a \in {generateCursorFormat(list)}, b \in {generateCursorFormat(list)'} :
                   SameButLine(a, b, TimestampLine)
       /\ GenerateStep =>
            /\ genList' \in ListEnabledSources(sources)
            /\ sources' = checkAndRefreshCache(genList', AllWritesOk(genList')).sources
            /\ genUpdated' =
                 checkAndRefreshCache(genList', AllWritesOk(genList')).updatedSources]_vars

\* a Cursor rendering of two sources made after the clock has advanced: its
\* timestamp line is not the one of a rendering at time 0
C21_Witness ==
    /\ Done
    /\ genOpts.format = FormatCursor
    /\ Len(genUpdated) = 2
    /\ now > 0
    /\ genOut = generateCursorFormat(genUpdated)
    /\ Line(genOut, TimestampLine) # <<"G", "e", "n", "e", "r", "a", "t", "e", "d", ":", " ">> \o RFC3339(0)

\* the text of a list of sources in the format the identifier selects
Rendering(format, list) ==
    CASE format \in {FormatClaude, FormatEmpty} -> generateClaudeFormat(list)
      [] format = FormatCursor -> generateCursorFormat(list)
      [] OTHER -> generateDefaultFormat(list)

\* C22: "claude" and the empty identifier select the Claude format,
\* "cursor" the Cursor format, any other identifier ("default", "md") the
\* default format; whether a generate succeeds does not depend on the
\* identifier, and Generate writes to its file what GenerateToString returns.
C22_FormatDispatch ==
    /\ (Done /\ genResult = "ok") => genOut = Rendering(genOpts.format, genUpdated)
    /\ genPc = "idle" =>
         \A format \in Formats, listing \in Listings(FALSE) :
            LET writeOk == AllWritesOk(listing.list)
                s == GenerateToString(format, listing, writeOk)
                f == Generate(format, listing, writeOk, "ok", TRUE)
            IN  /\ s.result = GenerateToString(FormatClaude, listing, writeOk).result
                /\ s.result = "ok" => s.content = Rendering(format, s.updatedSources)
                /\ f.result = s.result
                /\ f.content = s.content
                /\ f.result = "ok" => f.outFile = File(s.content)

\* a generate with an identifier that names no format has succeeded, and
\* its output is the default format of two sources
C22_Witness ==
    /\ Done
    /\ genOpts.format = FormatOther
    /\ genResult = "ok"
    /\ Len(genUpdated) = 2
    /\ genOut = generateDefaultFormat(genUpdated)
    /\ genOut # generateClaudeFormat(genUpdated)

\* the heading line of section i of the Claude format, and the blank line
\* under it
Heading(i, name) ==
    <<"#", "#", " ">> \o Decimal(i) \o <<".", " ">> \o name \o <<"\n", "\n">>

\* a fenced block holding content and nothing else
Fenced(content) == <<BT, BT, BT, "\n">> \o content \o <<"\n", BT, BT, BT, "\n">>

\* where the heading of section i is, in out
HeadingAt(out, i, name) == CHOOSE p \in Occurrences(Heading(i, name), out) : TRUE

\* C23: the Claude-format output of a generate over N reconciled sources
\* has N sections: N heading lines, the i-th numbered i and titled with the
\* i-th source's name, in that order, and between the i-th heading and the
\* next one fenced block, whose body is the i-th source's reconciled content.
C23_ClaudeSections ==
    (Done /\ genResult = "ok" /\ genOpts.format \in {FormatClaude, FormatEmpty}) =>
        LET n == Len(genUpdated)
            at(i) == HeadingAt(genOut, i, genUpdated[i].name)
            end(i) == IF i < n THEN at(i + 1) ELSE Len(genOut) + 1
        IN  /\ n = Len(genList)
            /\ Cardinality(Occurrences(<<"\n", "#", "#", " ">>, genOut)) = n
            /\ Cardinality(Occurrences(<<BT, BT, BT, "\n">>, genOut)) = 2 * n
            /\ \A i \in 1..n :
                  /\ Cardinality(Occurrences(Heading(i, genUpdated[i].name), genOut)) = 1
                  /\ at(i) < end(i)
                  /\ \E p \in Occurrences(Fenced(genUpdated[i].content), genOut) :
                         at(i) < p /\ p < end(i)

\* a Claude-format output of two sources, of different contents, one of
\* them replaced by this generate's refresh
C23_Witness ==
    /\ Done
    /\ genResult = "ok"
    /\ genOpts.format = FormatClaude
    /\ Len(genUpdated) = 2
    /\ genUpdated[1].content # genUpdated[2].content
    /\ \E i \in 1..2 : genLog[i] = LogRefreshed /\ genUpdated[i].content # genList[i].content
    /\ Occurrences(Heading(2, genUpdated[2].name), genOut) # {}

\* bookmarks of any title and address: an address that is no http(s) URL
\* is one that cannot be fetched
AnyBookmarks == {Bookmark(t, u) : t \in Names, u \in Locators}

\* the import of a file of these bookmarks
Import(bs) == importBookmarks([ok |-> TRUE, bookmarks |-> bs])

\* the ids an outcome has added to the table
Created(o) == DOMAIN o.sources \ DOMAIN sources

\* C24: a source created by import-bookmarks is a disabled bookmark, the
\* import changes no source that was there before it, a bookmark that is
\* not imported (its fetch or its creation fails) leaves the import of the
\* bookmarks after it as it would be without it, and the count the import
\* reports is the number of sources it created.
C24_BookmarkImport ==
    genPc = "idle" =>
        /\ \A b1, b2 \in AnyBookmarks :
              LET o == Import(<<b1, b2>>)
              IN  /\ \A id \in Created(o) :
                        /\ o.sources[id].source_type = "bookmark"
                        /\ o.sources[id].enabled = 0
                        /\ o.sources[id].path \in {b1.url, b2.url}
                  /\ \A id \in DOMAIN sources :
                        id \in DOMAIN o.sources /\ o.sources[id] = sources[id]
                  /\ o.imported = Cardinality(Created(o))
                  /\ o.status = "Imported"
                  /\ Created(Import(<<b1>>)) = {} =>
                        /\ o.sources = Import(<<b2>>).sources
                        /\ o.imported = Import(<<b2>>).imported
        /\ LET o == importBookmarks([ok |-> FALSE, bookmarks |-> <<>>])
           IN  o.sources = sources /\ o.imported = 0

\* a table that holds a source, and a file of two bookmarks: the first
\* cannot be fetched, the second is imported
C24_Witness ==
    /\ genPc = "idle"
    /\ DOMAIN sources # {}
    /\ \E b1, b2 \in AnyBookmarks :
          /\ ~ParseURL(b1.url).ok
          /\ Import(<<b1, b2>>).imported = 1
          /\ Cardinality(Created(Import(<<b1, b2>>))) = 1

\* what the parser answers for a locator: by its prefix, as add asks it
Fetch(locator) == IF IsURL(locator) THEN ParseURL(locator) ELSE ParseFile(locator)

\* C25: an add (of the CLI or of the TUI) whose fetch fails returns the
\* error of the fetch and leaves the table as it is, whether or not a
\* source of that name is there; and a row that a step adds to the table
\* holds what a fetch of its locator returned in that step.
C25_AddAllOrNothing ==
    [][/\ genPc = "idle" =>
            \A name \in Names, locator \in Locators, dbOk \in BOOLEAN :
                ~Fetch(locator).ok =>
                    /\ \A enabled \in BOOLEAN :
                          LET o == addSource(name, locator, enabled, dbOk)
                          IN  /\ o.status \in {"failed to parse URL", "failed to parse file"}
                              /\ o.sources = sources
                              /\ o.nextId = nextId
                    /\ LET o == tuiAddSource(name, locator, dbOk)
                       IN  /\ o.status \in {"failed to fetch URL", "failed to read file"}
                           /\ o.sources = sources
                           /\ o.nextId = nextId
       /\ \A id \in DOMAIN sources' \ DOMAIN sources :
            /\ world' = world
            /\ Fetch(sources'[id].path) = Fetched(sources'[id].content)
            /\ sources'[id].hash = ComputeHash(sources'[id].content)]_vars

\* a source whose locator cannot be fetched any more: an add of its name
\* and locator fails
C25_Witness ==
    /\ genPc = "idle"
    /\ \E i \in DOMAIN sources :
          /\ ~Fetch(sources[i].path).ok
          /\ sources[i].content # <<>>
          /\ addSource(sources[i].name, sources[i].path, TRUE, TRUE).status
                 = "failed to parse file"
          /\ addSource(sources[i].name, sources[i].path, TRUE, TRUE).sources = sources

\* the file of genList[i] is there and is longer than the parser reads
TooLarge(i) ==
    /\ genList[i].source_type = "file"
    /\ world[genList[i].path].ok
    /\ Len(world[genList[i].path].content) > MaxFileSize

\* the file of genList[i] is not there
Missing(i) ==
    /\ genList[i].source_type = "file"
    /\ ~world[genList[i].path].ok

\* C26: when the file of an enabled file source is larger than the limit
\* of the parser, or is gone, at the time of a generate, the parser returns
\* an error, and the generate takes it as it takes any failed fetch: it
\* succeeds, it renders the cached content of the source and it does not
\* write the source's row.
C26_SizeLimitIsFetchFailure ==
    Done => \A i \in 1..Len(genList) :
        (TooLarge(i) \/ Missing(i)) =>
            /\ ~ParseFile(genList[i].path).ok
            /\ genFetched[i] = FetchErr
            /\ genLog[i] = LogCheckFailed
            /\ genResult = "ok"
            /\ Len(genUpdated) = Len(genList)
            /\ genUpdated[i] = genList[i]
            /\ RowUntouched(i)
            /\ Contains(genOut, Section(genList[i].name, genList[i].content))

\* a generate over a file source whose file has grown beyond the limit
C26_Witness ==
    /\ Done
    /\ genResult = "ok"
    /\ \E i \in 1..Len(genList) :
          /\ TooLarge(i)
          /\ genList[i].content \in Contents
          /\ Contains(genOut, Section(genList[i].name, genList[i].content))

\* the names of the sources that an Update's outcome has removed
Gone(u) == {sources[i].name : i \in DOMAIN sources \ DOMAIN u.sources}

\* what any key does, in the state the TUI is in: only y or Y, in the
\* confirmation, removes a source, and it removes the source named in the
\* confirmation; only d, on a list that is not empty, opens the
\* confirmation, and names in it the source under the cursor
ConfirmedDeletesOnly ==
    \A key \in Keys, dbOk \in BOOLEAN, reloadOk \in BOOLEAN :
        \A u \in Update(tui, key, dbOk, reloadOk) :
            /\ Gone(u) # {} =>
                  /\ key \in {"y", "Y"}
                  /\ tui.deleteConfirm
                  /\ ~tui.addMode
                  /\ Gone(u) = {tui.deleteTarget}
            /\ (u.m.deleteConfirm /\ ~tui.deleteConfirm) =>
                  /\ key = "d"
                  /\ ~tui.addMode
                  /\ Len(tui.sources) > 0
                  /\ u.m.deleteTarget = tui.sources[tui.cursor + 1].name
                  /\ u.sources = sources

\* while the confirmation is open, the name in it is the name under the
\* cursor, and neither moves
ConfirmationKeepsTarget ==
    /\ tui.deleteConfirm =>
          /\ ~tui.addMode
          /\ tui.cursor < Len(tui.sources)
          /\ tui.deleteTarget = tui.sources[tui.cursor + 1].name
    /\ (tui.deleteConfirm /\ tui'.deleteConfirm) =>
          /\ tui'.deleteTarget = tui.deleteTarget
          /\ tui'.cursor = tui.cursor
          /\ tui'.sources = tui.sources
          /\ sources' = sources
    /\ \A i \in DOMAIN sources \ DOMAIN sources' :
          /\ tui.deleteConfirm
          /\ ~tui'.deleteConfirm
          /\ sources[i].name = tui.deleteTarget

\* C27: the TUI deletes a source only in the confirmation that d opens on
\* a list that is not empty, and only on y or Y; the source it deletes is
\* the one that was under the cursor when d was pressed; no other key, in
\* no mode, deletes a source.
C27_DeleteNeedsConfirmation ==
    []ConfirmedDeletesOnly /\ [][ConfirmationKeepsTarget]_vars

\* two sources were added, the second of the list was chosen and deleted
\* after its confirmation
C27_Witness ==
    /\ tui.message = "Deleted source"
    /\ ~tui.deleteConfirm
    /\ nextId = 3
    /\ Cardinality(DOMAIN sources) = 1
    /\ Len(tui.sources) = 1
    /\ tui.cursor = 0
    /\ \E i \in DOMAIN sources : i = 2

\* the messages of the add modal that begin with "Error: "
AddErrors == {"Error: Name cannot be empty", "Error: Path cannot be empty",
              "Error: add failed"}

\* Enter in the add modal, with these inputs, does not add: an input is
\* blank, or model.addSource returns an error
EnterFails(m, dbOk) ==
    \/ TrimSpace(m.nameInput) = <<>>
    \/ TrimSpace(m.pathInput) = <<>>
    \/ tuiAddSource(TrimSpace(m.nameInput), TrimSpace(m.pathInput), dbOk).status # "nil"

\* C28: in the add modal, Enter with a blank name or a blank path, or with
\* an add that fails, leaves the table as it is, sets an error message and
\* leaves the modal open; the modal closes only on Esc, which writes
\* nothing, and on an Enter whose add succeeded.
C28_AddModalRecovery ==
    (tui.addMode /\ ~tui.quit) =>
        \A key \in Keys, dbOk \in BOOLEAN, reloadOk \in BOOLEAN :
            \A u \in Update(tui, key, dbOk, reloadOk) :
                /\ (key = "enter" /\ EnterFails(tui, dbOk)) =>
                      /\ u.sources = sources
                      /\ u.nextId = nextId
                      /\ u.m.addMode
                      /\ u.m.message \in AddErrors
                /\ ~u.m.addMode =>
                      \/ key = "esc" /\ u.sources = sources /\ u.nextId = nextId
                      \/ /\ key = "enter"
                         /\ ~EnterFails(tui, dbOk)
                         /\ u.sources = tuiAddSource(TrimSpace(tui.nameInput),
                                                     TrimSpace(tui.pathInput), dbOk).sources
                /\ key = "esc" => ~u.m.addMode /\ u.sources = sources
                /\ key \notin {"enter"} => u.sources = sources

\* the modal is open after an Enter whose add failed: the page of the path
\* could not be fetched; a source added before is as it was
C28_Witness ==
    /\ tui.addMode
    /\ tui.message = "Error: add failed"
    /\ TrimSpace(tui.nameInput) \in Names
    /\ tui.pathInput = UrlPath
    /\ HasName(sources, TrimSpace(tui.nameInput))

\* C29: whatever the fetch and the write of each source of the list did
\* (fetched and equal, fetched and different, fetch failed, write failed),
\* checkAndRefreshCache returns no error and a list as long as the one it
\* was given, whose i-th element is the i-th source given: same id, same
\* name.
C29_PositionalReconciliation ==
    (Done /\ genList # <<>>) =>
        /\ genResult = "ok"
        /\ Len(genUpdated) = Len(genList)
        /\ Len(genLog) = Len(genList)
        /\ \A i \in 1..Len(genList) :
              /\ genUpdated[i].id = genList[i].id
              /\ genUpdated[i].name = genList[i].name
              /\ genUpdated[i].path = genList[i].path
              /\ genUpdated[i].source_type = genList[i].source_type

\* a generate over two sources: the fetch of the second failed, the first
\* was fetched and its content was another
C29_Witness ==
    /\ Done
    /\ Len(genList) = 2
    /\ genLog[2] = LogCheckFailed
    /\ genLog[1] \in {LogRefreshed, LogUpdateFailed}
    /\ genUpdated[1].id = genList[1].id
    /\ genUpdated[2].id = genList[2].id

\* genList[i] was removed from the table after the generate listed it
RemovedMeanwhile(i) == genList[i].id \notin DOMAIN sources

\* C30: when a source is removed after a generate has listed it and before
\* the generate writes its fresh content back, the write by id fails (it
\* is not taken for a write that succeeded: the generate does not log a
\* refresh and keeps the source as it listed it), and the source is not
\* in the table afterwards.
C30_WriteBackNotFound ==
    Done => \A i \in 1..Len(genList) :
        (RemovedMeanwhile(i) /\ FetchedOther(i)) =>
            /\ genLog[i] = LogUpdateFailed
            /\ genUpdated[i] = genList[i]
            /\ ~HasName(sources, genList[i].name)

\* a generate has ended whose source was removed between the listing and a
\* write-back of another content
C30_Witness ==
    /\ Done
    /\ genResult = "ok"
    /\ \E i \in 1..Len(genList) :
          /\ RemovedMeanwhile(i)
          /\ FetchedOther(i)
          /\ ~HasName(sources, genList[i].name)

---------------------------------------------------------------------------
(* SpecInterleave: processes on one database, statement by statement. An  *)
(* add is its lookup and its write; a toggle is its one statement; a      *)
(* generate to stdout is ListEnabledSources, then for each source of the  *)
(* list the check (with its fetch) and, on a cache miss, the write, then  *)
(* the rendering. The database runs one statement at a time.              *)

\* toggle-on, toggle-off in another process: one UpdateSourceEnabled
ToggleMeanwhile ==
    /\ \E name \in Names, enabled \in {0, 1} :
          /\ HasName(sources, name)
          /\ sources' = UpdateSourceEnabled(sources, name, enabled, now)
    /\ UNCHANGED <<nextId, now, world, history, outFile, genVars, presetSources,
                   adding, tui>>

\* a loop that asks again, for ever, about a source whose check fails
RefreshCheckRetries ==
    LET k == Len(genUpdated) + 1
        source == genList[k]
        d == detectCacheMiss(source)
    IN  /\ genPc = "listed"
        /\ k <= Len(genList)
        /\ IF d.err # ""
           THEN UNCHANGED <<genUpdated, genLog, genFetched, genPc>>
           ELSE IF d.needsRefresh
           THEN /\ genPc' = "writing"
                /\ genFetched' = Append(genFetched, d.parsed)
                /\ UNCHANGED <<genUpdated, genLog>>
           ELSE /\ genUpdated' = Append(genUpdated, source)
                /\ genFetched' = Append(genFetched, d.parsed)
                /\ genLog' = Append(genLog, LogNothing)
                /\ genPc' = "listed"
        /\ UNCHANGED <<sources, nextId, now, world, history, outFile, genOpts,
                       genList, genResult, genOut, presetSources, adding, tui>>

\* the range loop of checkAndRefreshCache up to UpdateSourceContent, for the
\* source after those it has appended to updatedSources
RefreshCheck ==
    LET k == Len(genUpdated) + 1
        source == genList[k]
        d == detectCacheMiss(source)
    IN  /\ genPc = "listed"
        /\ k <= Len(genList)
        /\ genFetched' = Append(genFetched, d.parsed)
        /\ IF d.err # ""
           THEN /\ genUpdated' = Append(genUpdated, source)
                /\ genLog' = Append(genLog, LogCheckFailed)
                /\ genPc' = "listed"
           ELSE IF d.needsRefresh
           THEN /\ genPc' = "writing"
                /\ UNCHANGED <<genUpdated, genLog>>
           ELSE /\ genUpdated' = Append(genUpdated, source)
                /\ genLog' = Append(genLog, LogNothing)
                /\ genPc' = "listed"
        /\ UNCHANGED <<sources, nextId, now, world, history, outFile, genOpts,
                       genList, genResult, genOut, presetSources, adding, tui>>

\* the loop from UpdateSourceContent to the append
RefreshWrite ==
    LET k == Len(genUpdated) + 1
        source == genList[k]
        freshContent == genFetched[k].content
        hash == ComputeHash(freshContent)
    IN  /\ genPc = "writing"
        /\ sources' = UpdateSourceContent(sources, source.id, freshContent, hash, now)
        /\ genUpdated' = Append(genUpdated,
                             [source EXCEPT !.content = freshContent, !.hash = hash])
        /\ genLog' = Append(genLog, LogRefreshed)
        /\ genPc' = "listed"
        /\ UNCHANGED <<nextId, now, world, history, outFile, genOpts, genList,
                       genFetched, genResult, genOut, presetSources, adding, tui>>

\* GenerateToString after checkAndRefreshCache: the rendering
RefreshEnd ==
    /\ genPc = "listed"
    /\ Len(genUpdated) = Len(genList)
    /\ genPc' = "done"
    /\ genResult' = "ok"
    /\ genOut' = generateDefaultFormat(genUpdated)
    /\ UNCHANGED <<sources, nextId, now, world, history, outFile, genOpts, genList,
                   genUpdated, genFetched, genLog, presetSources, adding, tui>>

\* one source, added from the file; the file has changed since, and the
\* page reads as the file did
InitInterleave ==
    /\ sources = CreateSource(<<>>, 1, NameA, "file", FilePath, <<"a">>,
                              ComputeHash(<<"a">>), 1, 0)
    /\ nextId = 2
    /\ now = 0
    /\ world = [loc \in Locators |->
                   IF loc = FilePath THEN Fetched(<<"x">>) ELSE Fetched(<<"a">>)]
    /\ history = <<>>
    /\ outFile = NoFile
    /\ genPc = "idle"
    /\ genOpts = [toFile |-> FALSE, format |-> <<>>]
    /\ genList = <<>>
    /\ genUpdated = <<>>
    /\ genFetched = <<>>
    /\ genLog = <<>>
    /\ genResult = ""
    /\ genOut = <<>>
    /\ presetSources = {}
    /\ adding = [p \in Procs |-> NotAdding]
    /\ tui = initialModel(<<>>)

NextInterleave ==
    \/ Tick
    \/ \E name \in Names, source \in Locators, enabled \in BOOLEAN :
           AddLookup("p", name, source, enabled)
    \/ AddWrite("p")
    \/ AddReturn("p")
    \/ ToggleMeanwhile
    \/ GenList
    \/ RefreshCheck
    \/ RefreshWrite
    \/ RefreshEnd
    \/ GenReturn

SpecInterleave == InitInterleave /\ [][NextInterleave]_vars

\* the contents that a process holds, fetched, for the statement it is about
\* to run
Staged ==
    {adding[p].fetched.content : p \in {q \in Procs : adding[q].pc = "looked"}}
    \cup (IF genPc = "writing" THEN {genFetched[Len(genUpdated) + 1].content} ELSE {})

\* a step that changes the content or the hash of a row, or makes a row,
\* leaves the row with one staged content, its digest and the time of the step
WrittenAsOne ==
    \A id \in DOMAIN sources' :
        LET r == sources'[id]
        IN  (\/ id \notin DOMAIN sources
             \/ r.content # sources[id].content
             \/ r.hash # sources[id].hash)
            => /\ r.content \in Staged
               /\ r.hash = ComputeHash(r.content)
               /\ r.updated_at = now

\* C31: while an add, toggles and a generate run on one database statement
\* by statement, in every state every row has the digest of its content as
\* its hash, and every step that changes a row's content or hash sets
\* content, hash and updated_at together, from what one process fetched.
C31_AtomicWrites ==
    /\ [](\A r \in Rows(sources) : r.hash = ComputeHash(r.content))
    /\ [][WrittenAsOne]_vars

\* a generate and a re-add each hold a content, not the same one, to write
\* to one source, which a toggle has disabled since the generate listed it
C31_Witness ==
    /\ genPc = "writing"
    /\ adding["p"].pc = "looked"
    /\ adding["p"].found
    /\ LET source == genList[Len(genUpdated) + 1]
       IN  /\ adding["p"].id = source.id
           /\ adding["p"].fetched.content # genFetched[Len(genUpdated) + 1].content
           /\ source.id \in DOMAIN sources
           /\ sources[source.id].enabled # source.enabled

\* the ids of the enabled sources, in each order ListEnabledSources may
\* return them from table S
EnabledOrders(S) ==
    {[k \in DOMAIN list |-> list[k].id] : list \in ListEnabledSources(S)}

\* o leaves the row of name with the content fetched, its digest and the
\* time of the write, and with every other column as it was; it leaves the
\* other rows, and the order of the enabled sources, as they were
ReAdded(o, name, fetched) ==
    LET id == GetSourceByName(sources, name).id
    IN  /\ o.sources =
               [sources EXCEPT ![id] = [sources[id] EXCEPT
                                           !.content = fetched,
                                           !.hash = ComputeHash(fetched),
                                           !.updated_at = now]]
        /\ EnabledOrders(o.sources) = EnabledOrders(sources)

\* C32: an add (from the command line, whatever --enabled says, or from the
\* TUI) of a name the table holds, with a locator that can be fetched and
\* that may differ from the stored one, changes content, hash and updated_at
\* of that row and nothing else: path, source_type, enabled, created_at, id
\* and name stay, the other rows stay, and the enabled sources are listed in
\* the order they were listed in.
C32_ReAddFrame ==
    genPc = "idle" =>
        \A name \in Names, source \in Locators :
            (HasName(sources, name) /\ world[source].ok) =>
                /\ \A enabled \in BOOLEAN :
                       \A o \in {addSource(name, source, enabled, TRUE)} :
                           ReAdded(o, name, world[source].content)
                /\ \A o \in {tuiAddSource(name, source, TRUE)} :
                       ReAdded(o, name, world[source].content)

\* two enabled sources; the older one was written at its creation only, and
\* an add of its name with the other locator and --enabled=false, a second
\* later, brings another content
C32_Witness ==
    /\ genPc = "idle"
    /\ Cardinality(DOMAIN sources) = 2
    /\ \A id \in DOMAIN sources : sources[id].enabled = 1
    /\ \E name \in Names, source \in Locators :
        /\ HasName(sources, name)
        /\ world[source].ok
        /\ LET row == GetSourceByName(sources, name)
           IN  /\ row.path # source
               /\ row.content # world[source].content
               /\ row.updated_at # now
               /\ \E id \in DOMAIN sources : sources[id].created_at > row.created_at
               /\ addSource(name, source, FALSE, TRUE).status = "Updated source"

\* the TUI shows its list: no modal is open and it has not quit
MainView == ~tui.addMode /\ ~tui.deleteConfirm /\ ~tui.quit

\* table S with the enabled flag of the rows of that name set, as by one
\* UpdateSourceEnabled now, and every other row as it is
WithEnabled(S, name, enabled) ==
    [id \in DOMAIN S |->
        IF S[id].name = name
        THEN [S[id] EXCEPT !.enabled = enabled, !.updated_at = now]
        ELSE S[id]]

\* C33: in the main view, a space or an enter on a list that is not empty
\* finds the cursor on a source of the list, which the table holds, sets
\* that source's enabled flag to what the list does not show (1 for 0, 0
\* for 1), leaves every other row as it is and leaves the cursor where it
\* is, whether the reload that follows answers or not; when the statement
\* fails the table stays as it is; on an empty list the key changes nothing.
C33_TuiToggle ==
    MainView =>
        \A key \in {" ", "enter"}, dbOk \in BOOLEAN, reloadOk \in BOOLEAN :
            \A u \in Update(tui, key, dbOk, reloadOk) :
                IF Len(tui.sources) = 0
                THEN u = Updated(tui, sources, nextId)
                ELSE /\ tui.cursor < Len(tui.sources)
                     /\ HasName(sources, tui.sources[tui.cursor + 1].name)
                     /\ u.sources =
                            IF dbOk
                            THEN WithEnabled(sources, tui.sources[tui.cursor + 1].name,
                                             1 - tui.sources[tui.cursor + 1].enabled)
                            ELSE sources
                     /\ u.m.cursor = tui.cursor
                     /\ ~u.m.quit

\* the list shows two sources, the cursor is on the second, and a toggle
\* has disabled it
C33_Witness ==
    /\ MainView
    /\ Len(tui.sources) = 2
    /\ tui.cursor = 1
    /\ tui.message = "Toggled"
    /\ tui.sources[2].enabled = 0
    /\ GetSourceByName(sources, tui.sources[2].name).enabled = 0
    /\ tui.sources[1].enabled = 1

---------------------------------------------------------------------------
(* SpecTerminate: add, and a generate to stdout call by call, each call   *)
(* of which returns: ListEnabledSources answers or fails, a fetch yields  *)
(* a content or an error, UpdateSourceContent writes or fails. The        *)
(* process that runs the generate goes on to its next call (weak          *)
(* fairness of the steps of the generate).                                *)

\* GenerateToString when ListEnabledSources returns an error
GenListFails ==
    /\ genPc = "idle"
    /\ genPc' = "done"
    /\ genResult' = "failed to list enabled sources"
    /\ genOpts' = [toFile |-> FALSE, format |-> FormatDefault]
    /\ UNCHANGED <<sources, nextId, now, world, history, outFile, genList,
                   genUpdated, genFetched, genLog, genOut, presetSources, adding,
                   tui>>

\* the loop when UpdateSourceContent returns an error
RefreshWriteFails ==
    /\ genPc = "writing"
    /\ genUpdated' = Append(genUpdated, genList[Len(genUpdated) + 1])
    /\ genLog' = Append(genLog, LogUpdateFailed)
    /\ genPc' = "listed"
    /\ UNCHANGED <<sources, nextId, now, world, history, outFile, genOpts, genList,
                   genFetched, genResult, genOut, presetSources, adding, tui>>

NextTerminate ==
    \/ \E loc \in Locators, r \in FetchResults : EditLocator(loc, r)
    \/ CmdAdd(FALSE)
    \/ GenList
    \/ GenListFails
    \/ RefreshCheck
    \/ RefreshWrite
    \/ RefreshWriteFails
    \/ RefreshEnd
    \/ GenReturn

SpecTerminate ==
    /\ Init
    /\ [][NextTerminate]_vars
    /\ WF_vars(RefreshCheck)
    /\ WF_vars(RefreshWrite \/ RefreshWriteFails)
    /\ WF_vars(RefreshEnd)

\* the generate is in its loop
Refreshing == genPc \in {"listed", "writing"}

\* the sources the loop is done with are the first of the list, each once
OncePerSource ==
    /\ Len(genUpdated) <= Len(genList)
    /\ Len(genLog) = Len(genUpdated)
    /\ Len(genFetched) = Len(genUpdated) + (IF genPc = "writing" THEN 1 ELSE 0)
    /\ \A i \in DOMAIN genUpdated : genUpdated[i].id = genList[i].id

\* the generate has returned: a rendering of every source of the list, or
\* an error
Returned ==
    /\ genPc = "done"
    /\ \/ /\ genResult = "ok"
          /\ Len(genUpdated) = Len(genList)
          /\ Len(genFetched) = Len(genList)
          /\ genOut = generateDefaultFormat(genUpdated)
       \/ /\ genResult \in {"no enabled sources found",
                            "failed to list enabled sources"}
          /\ genList = <<>>
          /\ genOut = <<>>

\* C34: when every call returns, a generate that has listed its sources
\* goes through them one by one, each once and in the order of the list,
\* whatever the fetches and the writes return, and comes to return: a
\* rendering of all of them, or (before the loop) an error.
C34_Termination ==
    /\ [](Refreshing => OncePerSource)
    /\ [](genPc = "done" => Returned)
    /\ Refreshing ~> Returned

\* a generate of two sources has returned; a fetch had failed, a write had
\* failed
C34_Witness ==
    /\ Returned
    /\ Len(genList) = 2
    /\ \E i, j \in DOMAIN genLog :
          genLog[i] = LogCheckFailed /\ genLog[j] = LogUpdateFailed

\* the history row of a Generate of n sources
HistoryRow(n) ==
    [preset_name |-> <<>>, output_path |-> OutputPath, source_count |-> n]

\* g, what Generate returns and leaves, and t, what GenerateToString does:
\* the same result, text, reconciled sources and table; t leaves the file
\* and the history alone; g, when it has a text, leaves it in the file and
\* (when CreateHistory answers) one more row in the history
SameButOutput(g, t, historyOk) ==
    /\ g.result = t.result
    /\ g.content = t.content
    /\ g.updatedSources = t.updatedSources
    /\ g.sources = t.sources
    /\ t.outFile = outFile
    /\ t.history = history
    /\ IF t.result = "ok"
       THEN /\ g.outFile = File(t.content)
            /\ g.history = IF historyOk
                           THEN Append(history, HistoryRow(Len(t.updatedSources)))
                           ELSE history
       ELSE /\ g.outFile = outFile
            /\ g.history = history

\* C35: from one table, at one time, with the same answer of
\* ListEnabledSources, the same fetches and the same answers to the writes,
\* and in the same format (any of them), Generate and GenerateToString come
\* to the same text, the same error if any, and the same table; Generate
\* writes the text to the output file and adds a history row,
\* GenerateToString touches neither.
C35_GenerateEquivalence ==
    genPc = "idle" =>
        \A format \in Formats, listing \in Listings(TRUE) :
            \A writeOk \in [1..Len(listing.list) -> BOOLEAN] :
                \A g \in {Generate(format, listing, writeOk, "ok", TRUE)},
                   t \in {GenerateToString(format, listing, writeOk)} :
                    SameButOutput(g, t, TRUE)

\* a file holds the text of an earlier Generate; two sources are enabled,
\* one of them with a content its locator no longer yields, so that the
\* next generate, of either kind, writes the table
C35_Witness ==
    /\ genPc = "idle"
    /\ outFile.exists
    /\ Len(history) > 0
    /\ \E list \in ListEnabledSources(sources) :
          /\ Len(list) = 2
          /\ LET t == GenerateToString(FormatCursor, Listing(TRUE, list),
                                       [i \in 1..2 |-> TRUE])
             IN  /\ t.sources # sources
                 /\ t.content # outFile.content
                 /\ t.content # generateCursorFormat(list)

\* the errors of Generate about the output path
OutputErrors == {"failed to create output directory", "failed to write output file"}

\* the step is a Generate that could not make the output directory or write
\* the output file
OutputFailure == Composition /\ genOpts'.toFile /\ genResult' \in OutputErrors

\* the row of every source the generate refreshed holds what was fetched
\* for it and the digest of that, and is not what it was
RefreshKept ==
    \A i \in DOMAIN genList' :
        genLog'[i] = LogRefreshed =>
            LET id == genList'[i].id
            IN  /\ sources'[id].content = genFetched'[i].content
                /\ sources'[id].hash = ComputeHash(genFetched'[i].content)
                /\ sources'[id].content # sources[id].content
                /\ sources'[id].updated_at = now

\* C36: a Generate returns success only when it has written its text to
\* the output file; one that fails on MkdirAll or on WriteFile returns that
\* error and adds no history row, and keeps what its refresh wrote: every
\* source it refreshed holds the fetched content and its digest, and every
\* row of the table has the digest of its content as its hash.
C36_RefreshSurvivesOutputFailure ==
    [][/\ OutputFailure =>
            /\ history' = history
            /\ RefreshKept
            /\ \A r \in Rows(sources') : r.hash = ComputeHash(r.content)
       /\ (Composition /\ genOpts'.toFile /\ genResult' = "ok") =>
            outFile' = File(genOut')]_vars

\* a Generate could not write its output, after it had refreshed a source
C36_Witness ==
    /\ Done
    /\ genOpts.toFile
    /\ genResult = "failed to write output file"
    /\ history = <<>>
    /\ \E i \in DOMAIN genList :
        /\ genLog[i] = LogRefreshed
        /\ sources[genList[i].id].content = genFetched[i].content
        /\ sources[genList[i].id].content # genList[i].content

\* genList[i], as the generate listed it, holds what another locator than
\* its own yields, and its own locator yields something else
HoldsOtherLocator(i) ==
    /\ Fetch(genList[i].path).ok
    /\ Fetch(genList[i].path).content # genList[i].content
    /\ \E other \in Locators \ {genList[i].path} :
          world[other].ok /\ genList[i].content = world[other].content

\* C37: an add of a name the table holds, with a locator that is not the
\* stored one, stores what that locator yields and keeps the stored
\* locator; and a generate that lists a source holding what another locator
\* yields while its own yields something else has fetched from the stored
\* locator, has written that content and its digest to the row (whose
\* locator stays) and has rendered that content.
C37_ReAddReverted ==
    /\ genPc = "idle" =>
          \A name \in Names, source \in Locators :
              (/\ HasName(sources, name)
               /\ world[source].ok
               /\ GetSourceByName(sources, name).path # source) =>
                  LET row == GetSourceByName(sources, name)
                      o == addSource(name, source, TRUE, TRUE)
                  IN  /\ o.sources[row.id].content = world[source].content
                      /\ o.sources[row.id].path = row.path
    /\ (Done /\ genResult = "ok") =>
          \A i \in DOMAIN genList :
              HoldsOtherLocator(i) =>
                  LET id == genList[i].id
                      fresh == Fetch(genList[i].path).content
                  IN  /\ genFetched[i] = Fetch(genList[i].path)
                      /\ sources[id].content = fresh
                      /\ sources[id].hash = ComputeHash(fresh)
                      /\ sources[id].path = genList[i].path
                      /\ genUpdated[i].content = fresh
                      /\ genOpts.format = FormatDefault =>
                             /\ Contains(genOut, Section(genList[i].name, fresh))
                             /\ ~Contains(genOut, Section(genList[i].name,
                                                          genList[i].content))

\* a generate in the default format has listed a file source that held
\* what the page yields (its name was added again with the URL), and the
\* table holds what the file yields
C37_Witness ==
    /\ Done
    /\ genResult = "ok"
    /\ genOpts.format = FormatDefault
    /\ \E i \in DOMAIN genList :
          /\ genList[i].path = FilePath
          /\ genList[i].source_type = "file"
          /\ HoldsOtherLocator(i)
          /\ genList[i].updated_at > genList[i].created_at
          /\ sources[genList[i].id].content = world[FilePath].content

---------------------------------------------------------------------------
(* SpecTuiFault: one TUI on a database with no sources, and no other      *)
(* process; the statements that write the table answer, ListSources may   *)
(* fail. The file can be read, the page cannot be fetched.                *)
KeyPressFault(key) ==
    /\ genPc = "idle"
    /\ ~tui.quit
    /\ \E reloadOk \in BOOLEAN :
          \E u \in Update(tui, key, TRUE, reloadOk) :
              /\ u.nextId <= MaxId + 1
              /\ tui' = u.m
              /\ sources' = u.sources
              /\ nextId' = u.nextId
              /\ presetSources' = Cascade(presetSources, u.sources)
    /\ UNCHANGED <<now, world, history, outFile, genVars, adding>>

NextTuiFault == \E key \in Keys : KeyPressFault(key)

SpecTuiFault == InitTui /\ [][NextTuiFault]_vars

\* C38: whatever keys are pressed, with no other process on the store, the
\* cursor is never negative, and it is on a source of the list whenever the
\* list is not empty.
C38_CursorInBounds ==
    /\ tui.cursor >= 0
    /\ Len(tui.sources) > 0 => tui.cursor < Len(tui.sources)

\* the program has indexed its list past the end, and panicked
C38_Witness ==
    /\ tui.quit
    /\ tui.message = "panic: index out of range"
    /\ Len(tui.sources) > 0
    /\ tui.cursor >= Len(tui.sources)

---------------------------------------------------------------------------
(* SpecTuiShared: one TUI, every call of which on the store answers, and  *)
(* other processes that add and remove sources on the same store between  *)
(* its key events.                                                        *)
NextTuiShared ==
    \/ \E key \in Keys : KeyPress(key)
    \/ CmdAdd(FALSE)
    \/ CmdRemove(FALSE)

SpecTuiShared == InitTui /\ [][NextTuiShared]_vars

\* C39: with other processes adding and removing sources, a space, an
\* enter or a d on a list that is not empty never indexes the list past its
\* end (the program does not panic).
C39_IndexInBounds == tui.message # "panic: index out of range"

\* another process has removed a source, a reload has shown it, and the
\* cursor is past the end of the list
C39_Witness ==
    /\ MainView
    /\ tui.message = "Sources reloaded"
    /\ Len(tui.sources) = 1
    /\ tui.cursor = 1
    /\ tui.sources \in ListSources(sources)

---------------------------------------------------------------------------
(* SpecTuiClock: one TUI, every call of which on the store answers, and   *)
(* no other process, as time passes. The keys are those that lead to a    *)
(* call on the store, and those that move the cursor.                     *)
StoreKeys == {"a", "b", "/f", "tab", "enter", "d", "y", "up", "down", "r"}

KeyPressOk(key) ==
    /\ genPc = "idle"
    /\ ~tui.quit
    /\ \E u \in Update(tui, key, TRUE, TRUE) :
          /\ u.nextId <= MaxId + 1
          /\ tui' = u.m
          /\ sources' = u.sources
          /\ nextId' = u.nextId
          /\ presetSources' = Cascade(presetSources, u.sources)
    /\ UNCHANGED <<now, world, history, outFile, genVars, adding>>

NextTuiClock ==
    \/ Tick
    \/ \E key \in StoreKeys : KeyPressOk(key)

SpecTuiClock == InitTui /\ [][NextTuiClock]_vars

\* C40: with no other process on the store and no call on it failing, after
\* every key event the list of the TUI is what ListSources returns from the
\* table: every row, as the table has it, the newest first.
C40_ListMirrorsStore ==
    /\ tui.sources \in ListSources(sources)
    /\ Len(tui.sources) = Cardinality(DOMAIN sources)
    /\ \A i, j \in DOMAIN tui.sources :
          i < j => tui.sources[i].created_at >= tui.sources[j].created_at

\* the list shows two sources, the one added later first, after a toggle
\* of the older one
C40_Witness ==
    /\ Len(tui.sources) = 2
    /\ tui.sources[1].created_at > tui.sources[2].created_at
    /\ tui.message = "Toggled"
    /\ tui.sources[2].enabled = 0
    /\ tui.sources[2].updated_at > tui.sources[2].created_at

---------------------------------------------------------------------------
(* SpecReAdd: add, from the command line and from the TUI's modal, and    *)
(* toggle-off, as time passes; the locators stay as they are.             *)
NextReAdd ==
    \/ Tick
    \/ CmdAdd(FALSE)
    \/ TuiAdd(FALSE)
    \/ CmdToggleOff(FALSE)

SpecReAdd == Init /\ [][NextReAdd]_vars

=============================================================================
